---- MODULE Spec2Model ----
(***************************************************************************)
(* Knight Commander: the turn-resolution engine.                           *)
(*                                                                         *)
(* The model follows src/src/engine: the location grid and the damage      *)
(* model (grid.ts, damage.ts, criticals-core.ts), plan validation          *)
(* (core-actions.ts), single-shot attack resolution (resolve-attack.ts)    *)
(* and the turn orchestrator (execute-turn.ts) driven by executeTurnUI.    *)
(***************************************************************************)
EXTENDS Integers, Sequences, FiniteSets, TLC

VARIABLES
    scn,          \* the match being played: loadouts, spawns, terrain, offered orders
    knights,      \* Record<PlayerId, KnightState>, the live Knights
    positions,    \* Record<PlayerId, Vec2>
    facings,      \* Record<PlayerId, facing>
    turnNumber,   \* the turn counter of the App
    plans,        \* Record<PlayerId, Plan>: the planned action lists
    inputs,       \* TurnInputs
    weaponTargets,\* Record<PlayerId, Record<mount key, cell id>>
    issues,       \* what validateBothPlans reported to the log at the last Execute
    pc,           \* where executeTurnUI / executeTurnMutating stands
    exec,         \* the locals of executeTurnMutating: step index, order, attackers, cursor
    events,       \* TurnEvent[] of the turn being resolved (or of the last one)
    rotateArmourBonus, \* Record<PlayerId, number>, local to one executeTurnMutating call
    computeKnights,    \* the compute-pass clones of a ranged or Charge step
    fnArgs,       \* arguments of the function under test (function-level specifications)
    fnOut         \* its result, or NoResult before the call

vars == <<scn, knights, positions, facings, turnNumber, plans, inputs, weaponTargets,
          issues, pc, exec, events, rotateArmourBonus, computeKnights, fnArgs, fnOut>>

gameVars == <<scn, positions, facings, turnNumber, inputs, weaponTargets, issues, pc,
              exec, events, rotateArmourBonus, computeKnights>>

-----------------------------------------------------------------------------
(* Bounds of the model *)

\* facings range over this many eighths of a turn to either side of 0 degrees
MaxEighths == 10

\* largest measured range handed to resolveWeaponProfileForEquippedName directly
MaxMeasuredRange == 5

\* longest action list handed to validatePlan
MaxPlanLen == 3
\* largest max-action-points value handed to validatePlan
MaxAP == 4
\* largest damage amount handed to applyDamageToCell directly
MaxDamage == 2
\* turns played in one match
MaxTurns == 2

-----------------------------------------------------------------------------
(* Players and small helpers *)

PlayerIds == <<"P1", "P2">>
Players == {"P1", "P2"}

enemyOf(p) == IF p = "P1" THEN "P2" ELSE "P1"

Max(a, b) == IF a >= b THEN a ELSE b
Min(a, b) == IF a <= b THEN a ELSE b

NoResult == [kind |-> "none"]

\* Array.prototype.find / findIndex: the first of the indices whose element
\* passes the test (hits), or 0 when none does
\* the element of a set of one element; {e(x) : x \in {v}} works e out with v
\* worked out once
Only(S) == CHOOSE x \in S : TRUE

FindIndex(hits) ==
    IF hits = {} THEN 0 ELSE CHOOSE i \in hits : \A j \in hits : i <= j

-----------------------------------------------------------------------------
(* core-actions.ts *)

CoreAction ==
    {"SNAP_ATTACK", "STANDARD_ATTACK", "AIMED_ATTACK", "ADVANCE", "RUN", "CHARGE",
     "ROTATE_ION_SHIELDS"}

CORE_ACTION_COST ==
    [SNAP_ATTACK |-> 1, STANDARD_ATTACK |-> 2, AIMED_ATTACK |-> 3, ADVANCE |-> 1,
     RUN |-> 1, CHARGE |-> 2, ROTATE_ION_SHIELDS |-> 1]

\* the initiative order with the two moves exchanged (variant)
CORE_ACTION_ORDER_RunFirst ==
    <<"SNAP_ATTACK", "RUN", "ROTATE_ION_SHIELDS", "STANDARD_ATTACK", "ADVANCE",
      "AIMED_ATTACK", "CHARGE">>

CORE_ACTION_ORDER ==
    <<"SNAP_ATTACK", "ADVANCE", "ROTATE_ION_SHIELDS", "STANDARD_ATTACK", "RUN",
      "AIMED_ATTACK", "CHARGE">>

\* plan.actions.includes(a)
Includes(actions, a) == \E i \in 1..Len(actions) : actions[i] = a

\* the duplicate loop left out (variant)
NoDuplicateIssues(actions, i) == <<>>

\* the duplicate loop of validatePlan: one issue per element already seen
RECURSIVE DuplicateIssues(_, _)
DuplicateIssues(actions, i) ==
    IF i > Len(actions) THEN <<>>
    ELSE (IF \E j \in 1..(i - 1) : actions[j] = actions[i]
          THEN <<[severity |-> "error", rule |-> "duplicate", action |-> actions[i]]>>
          ELSE <<>>)
         \o DuplicateIssues(actions, i + 1)

\* plan.actions.reduce((sum, a) => sum + CORE_ACTION_COST[a], 0)
RECURSIVE TotalAP(_)
TotalAP(actions) ==
    IF Len(actions) = 0 THEN 0
    ELSE CORE_ACTION_COST[Head(actions)] + TotalAP(Tail(actions))

\* the AP rule of validatePlan with the comparison weakened (variant)
BudgetIssuesOffByOne(actions, knight) ==
    IF TotalAP(actions) > knight.maxActionPoints + 1
    THEN <<[severity |-> "error", rule |-> "budget", action |-> "none"]>>
    ELSE <<>>

BudgetIssues(actions, knight) ==
    IF TotalAP(actions) > knight.maxActionPoints
    THEN <<[severity |-> "error", rule |-> "budget", action |-> "none"]>>
    ELSE <<>>

validatePlan(plan, knight) ==
    DuplicateIssues(plan.actions, 1)
    \o BudgetIssues(plan.actions, knight)
    \o (IF Includes(plan.actions, "ROTATE_ION_SHIELDS") /\ ~knight.canRotateIonShields
        THEN <<[severity |-> "error", rule |-> "rotate", action |-> "ROTATE_ION_SHIELDS"]>>
        ELSE <<>>)

-----------------------------------------------------------------------------
(* grid.ts *)

Letters == <<"A", "B", "C", "D", "E", "F">>

\* `${String.fromCharCode(65 + y)}${x + 1}`
cellId(x, y) == Letters[y + 1] \o ToString(x + 1)

\* The grid template of the chassis (content data): 4 columns, 3 rows, C1 blank.
GridTemplate ==
    [width |-> 4, height |-> 3,
     cells |-> <<
        [x |-> 0, y |-> 0, group |-> 3, maxArmorPoints |-> 1],
        [x |-> 1, y |-> 0, group |-> 2, maxArmorPoints |-> 1],
        [x |-> 2, y |-> 0, group |-> 1, maxArmorPoints |-> 1],
        [x |-> 3, y |-> 0, group |-> 3, maxArmorPoints |-> 1],
        [x |-> 0, y |-> 1, group |-> 3, maxArmorPoints |-> 1],
        [x |-> 1, y |-> 1, group |-> 6, maxArmorPoints |-> 2],
        [x |-> 2, y |-> 1, group |-> 4, maxArmorPoints |-> 1],
        [x |-> 3, y |-> 1, group |-> 3, maxArmorPoints |-> 1],
        [x |-> 1, y |-> 2, group |-> 8, maxArmorPoints |-> 1],
        [x |-> 2, y |-> 2, group |-> 5, maxArmorPoints |-> 1],
        [x |-> 3, y |-> 2, group |-> 7, maxArmorPoints |-> 2] >>]

instantiateGrid(template) ==
    [width |-> template.width, height |-> template.height,
     cells |-> [i \in 1..Len(template.cells) |->
        [id |-> cellId(template.cells[i].x, template.cells[i].y),
         x |-> template.cells[i].x,
         y |-> template.cells[i].y,
         group |-> template.cells[i].group,
         armorPoints |-> template.cells[i].maxArmorPoints,
         maxArmorPoints |-> template.cells[i].maxArmorPoints,
         criticallyDamaged |-> FALSE]]]

-----------------------------------------------------------------------------
(* criticals-core.ts *)

\* weapons.filter(w => w.mount === mount).forEach(w => (w.disabled = true))
DisableMount(weapons, mount) ==
    [i \in 1..Len(weapons) |->
        IF weapons[i].mount = mount THEN [weapons[i] EXCEPT !.disabled = TRUE]
        ELSE weapons[i]]

\* a group-5 critical leaves the max action points as they are (variant)
applyCoreCriticalEffectNoClamp(knight, group) ==
    CASE group = 1 -> [knight EXCEPT !.weapons = DisableMount(@, "CARAPACE")]
      [] group = 4 -> [knight EXCEPT !.canRotateIonShields = FALSE]
      [] group = 6 -> [knight EXCEPT !.weapons = DisableMount(@, "TORSO")]
      [] group = 8 -> [knight EXCEPT !.movementPenalty = @ + 1]
      [] OTHER -> knight

\* a group-8 critical leaves the movement penalty as it is (variant)
applyCoreCriticalEffectNoPenalty(knight, group) ==
    CASE group = 1 -> [knight EXCEPT !.weapons = DisableMount(@, "CARAPACE")]
      [] group = 4 -> [knight EXCEPT !.canRotateIonShields = FALSE]
      [] group = 5 -> [knight EXCEPT !.maxActionPoints = Min(@, 2)]
      [] group = 6 -> [knight EXCEPT !.weapons = DisableMount(@, "TORSO")]
      [] OTHER -> knight

applyCoreCriticalEffect(knight, group) ==
    CASE group = 1 -> [knight EXCEPT !.weapons = DisableMount(@, "CARAPACE")]
      [] group = 4 -> [knight EXCEPT !.canRotateIonShields = FALSE]
      [] group = 5 -> [knight EXCEPT !.maxActionPoints = Min(@, 2)]
      [] group = 6 -> [knight EXCEPT !.weapons = DisableMount(@, "TORSO")]
      [] group = 8 -> [knight EXCEPT !.movementPenalty = @ + 1]
      [] OTHER -> knight

\* an arm is disabled as soon as one of its cells is critical (variant)
updateArmDisablesOnFirstCrit(knight) ==
    LET cells == knight.grid.cells
        w == knight.grid.width
        leftCrit == \E i \in 1..Len(cells) :
            cells[i].group = 3 /\ 2 * cells[i].x < w - 1 /\ cells[i].criticallyDamaged
        rightCrit == \E i \in 1..Len(cells) :
            cells[i].group = 3 /\ 2 * cells[i].x > w - 1 /\ cells[i].criticallyDamaged
        k1 == IF leftCrit
              THEN [knight EXCEPT !.weapons = DisableMount(@, "ARM_LEFT")]
              ELSE knight
    IN  IF rightCrit THEN [k1 EXCEPT !.weapons = DisableMount(@, "ARM_RIGHT")] ELSE k1

\* c.x < mid and c.x > mid with mid = (width - 1) / 2, in integers
updateArmDisablesIfNeeded(knight) ==
    LET cells == knight.grid.cells
        w == knight.grid.width
        leftArm == {i \in 1..Len(cells) : cells[i].group = 3 /\ 2 * cells[i].x < w - 1}
        rightArm == {i \in 1..Len(cells) : cells[i].group = 3 /\ 2 * cells[i].x > w - 1}
        leftBothCrit ==
            Cardinality(leftArm) >= 2 /\ \A i \in leftArm : cells[i].criticallyDamaged
        rightBothCrit ==
            Cardinality(rightArm) >= 2 /\ \A i \in rightArm : cells[i].criticallyDamaged
        k1 == IF leftBothCrit
              THEN [knight EXCEPT !.weapons = DisableMount(@, "ARM_LEFT")]
              ELSE knight
    IN  IF rightBothCrit THEN [k1 EXCEPT !.weapons = DisableMount(@, "ARM_RIGHT")] ELSE k1

\* critEffects[i] counts the group effects triggered by cell i (instrumentation)
TriggerEffect(knight, idx) ==
    LET k1 == [knight EXCEPT !.critEffects[idx] = @ + 1]
        k2 == applyCoreCriticalEffect(k1, knight.grid.cells[idx].group)
    IN  IF knight.grid.cells[idx].group = 3 THEN updateArmDisablesIfNeeded(k2) ELSE k2

\* marking that does nothing (variant)
markCellNever(knight, id) == knight

markCellCriticallyDamaged(knight, id) ==
    LET IsCell(c) == c.id = id
        idx == FindIndex({ix \in DOMAIN knight.grid.cells : IsCell(knight.grid.cells[ix])})
    IN  IF idx = 0 \/ knight.grid.cells[idx].criticallyDamaged THEN knight
        ELSE TriggerEffect(
                [knight EXCEPT !.grid.cells[idx].criticallyDamaged = TRUE], idx)

-----------------------------------------------------------------------------
(* damage.ts *)

\* applyDamageToCell without the early return, firing the effect itself (variant)
applyDamageToCellNoGuard(knight, idx, damage) ==
    LET k1 == [knight EXCEPT !.grid.cells[idx].armorPoints = Max(0, @ - damage)]
    IN  IF k1.grid.cells[idx].armorPoints = 0
        THEN TriggerEffect([k1 EXCEPT !.grid.cells[idx].criticallyDamaged = TRUE], idx)
        ELSE k1

\* cell is the cell of knight.grid.cells at index idx
applyDamageToCell(knight, idx, damage) ==
    IF knight.grid.cells[idx].criticallyDamaged THEN knight
    ELSE LET k1 == [knight EXCEPT !.grid.cells[idx].armorPoints = Max(0, @ - damage)]
         IN  IF k1.grid.cells[idx].armorPoints = 0
             THEN markCellCriticallyDamaged(k1, k1.grid.cells[idx].id)
             ELSE k1

\* knight.grid.cells.filter(c => c.criticallyDamaged).length
critCount(knight) ==
    LET IsCrit(c) == c.criticallyDamaged
    IN  Len(SelectSeq(knight.grid.cells, IsCrit))

\* the destroyed threshold off by one (variant)
isKnightDestroyedAtFive(knight) == critCount(knight) >= 5

isKnightDestroyed(knight) == critCount(knight) >= 6

-----------------------------------------------------------------------------
(* facing-arcs.ts                                                          *)
(* A facing is kept as an integer direction vector: 0 deg = (1,0), 90 deg  *)
(* = (0,1) (south, y grows downwards), and bearingDeg(from, to) is the     *)
(* vector to - from. The angle tests of incomingArc are done exactly on    *)
(* the vectors: with d the angle from the facing to the bearing,           *)
(*   |d| <= 45  iff  dot >= 0 and 2 dot^2 >= |u|^2 |v|^2,                  *)
(*   |d| >= 135 iff  dot <= 0 and 2 dot^2 >= |u|^2 |v|^2,                  *)
(*   d > 0      iff  cross > 0.                                            *)

\* normDeg(endFacingDeg) for the facings the planner offers (multiples of 90)
FacingOfDeg(deg) ==
    LET d == ((deg % 360) + 360) % 360
    IN  CASE d = 0 -> [x |-> 1, y |-> 0]
          [] d = 90 -> [x |-> 0, y |-> 1]
          [] d = 180 -> [x |-> -1, y |-> 0]
          [] OTHER -> [x |-> 0, y |-> -1]

\* bearingDeg(from, to): atan2(0, 0) = 0, so a zero vector bears east
bearingDeg(from, to) ==
    IF from.x = to.x /\ from.y = to.y THEN [x |-> 1, y |-> 0]
    ELSE [x |-> to.x - from.x, y |-> to.y - from.y]

incomingArc(defenderPos, defenderFacing, attackerPos) ==
    LET u == defenderFacing
        v == bearingDeg(defenderPos, attackerPos)
        dot == u.x * v.x + u.y * v.y
        cross == u.x * v.y - u.y * v.x
        wide == 2 * dot * dot >= (u.x * u.x + u.y * u.y) * (v.x * v.x + v.y * v.y)
    IN  IF dot >= 0 /\ wide THEN "FRONT"
        ELSE IF dot <= 0 /\ wide THEN "REAR"
        ELSE IF cross > 0 THEN "RIGHT" ELSE "LEFT"

relativeArc(originPos, originFacing, pointPos) ==
    incomingArc(originPos, originFacing, pointPos)

\* every mount fires into every arc (variant)
canFireFromAnyMount(mount, arc) == TRUE

canFireFromMountIntoArc(mount, arc) ==
    CASE mount = "CARAPACE" -> TRUE
      [] mount = "TORSO" -> arc = "FRONT"
      [] mount = "ARM_LEFT" -> arc = "FRONT" \/ arc = "LEFT"
      [] mount = "ARM_RIGHT" -> arc = "FRONT" \/ arc = "RIGHT"
      [] OTHER -> TRUE

canFireAtTarget(attackerPos, attackerFacing, targetPos, mount) ==
    canFireFromMountIntoArc(mount, relativeArc(attackerPos, attackerFacing, targetPos))

\* The same functions on whole degrees. a % n of JavaScript: the remainder takes
\* the sign of a.
JsRem(a, n) == IF a >= 0 THEN a % n ELSE -((-a) % n)

normDeg(d) == JsRem(JsRem(d, 360) + 360, 360)

\* the delta is passed on as it is (variant)
normalizeDeltaDegNot(delta) == delta

normalizeDeltaDeg(delta) ==
    LET d == JsRem(JsRem(delta + 180, 360) + 360, 360) - 180
    IN  IF d = -180 THEN 180 ELSE d

\* incomingArc from the bearing b = bearingDeg(defenderPos, attackerPos) on
incomingArcOfBearing(b, defenderFacingDeg) ==
    LET delta == normalizeDeltaDeg(b - normDeg(defenderFacingDeg))
        abs == IF delta < 0 THEN -delta ELSE delta
    IN  IF abs <= 45 THEN "FRONT"
        ELSE IF abs >= 135 THEN "REAR"
        ELSE IF delta > 0 THEN "RIGHT" ELSE "LEFT"

-----------------------------------------------------------------------------
(* core-weapons.ts *)

\* The weapon profiles (content data: weapons.json), keyed as CORE_WEAPONS is.
CORE_WEAPONS ==
    [RAPID_FIRE_BATTLE_CANNON |->
        [name |-> "Rapid-fire battle cannon", rangeInches |-> 6, ap |-> 0,
         damage |-> [type |-> "flat", value |-> 1, dice |-> "none"],
         scatter |-> TRUE, abilities |-> {}],
     THERMAL_CANNON_MAX |->
        [name |-> "Thermal cannon (max)", rangeInches |-> 4, ap |-> -1,
         damage |-> [type |-> "flat", value |-> 1, dice |-> "none"],
         scatter |-> TRUE, abilities |-> {}],
     THERMAL_CANNON_HALF |->
        [name |-> "Thermal cannon (half)", rangeInches |-> 2, ap |-> -2,
         damage |-> [type |-> "dice", value |-> 0, dice |-> "D3"],
         scatter |-> TRUE, abilities |-> {}],
     IRONSTORM_MISSILE_POD |->
        [name |-> "Ironstorm missile pod", rangeInches |-> 6, ap |-> 0,
         damage |-> [type |-> "flat", value |-> 1, dice |-> "none"],
         scatter |-> TRUE, abilities |-> {"INDIRECT"}],
     HEAVY_STUBBER |->
        [name |-> "Heavy stubber", rangeInches |-> 2, ap |-> 0,
         damage |-> [type |-> "flat", value |-> 1, dice |-> "none"],
         scatter |-> TRUE, abilities |-> {}],
     REAPER_CHAINSWORD |->
        [name |-> "Reaper chainsword", rangeInches |-> 1, ap |-> -2,
         damage |-> [type |-> "flat", value |-> 2, dice |-> "none"],
         scatter |-> FALSE, abilities |-> {}],
     THUNDERSTRIKE_GAUNTLET |->
        [name |-> "Thunderstrike gauntlet", rangeInches |-> 1, ap |-> -1,
         damage |-> [type |-> "dice", value |-> 0, dice |-> "D6"],
         scatter |-> FALSE, abilities |-> {}]]

\* Object.values(CORE_WEAPONS), in key order
WeaponKeys ==
    <<"RAPID_FIRE_BATTLE_CANNON", "THERMAL_CANNON_MAX", "THERMAL_CANNON_HALF",
      "REAPER_CHAINSWORD", "THUNDERSTRIKE_GAUNTLET", "IRONSTORM_MISSILE_POD",
      "HEAVY_STUBBER">>

NoProfile == [name |-> "null"]

\* specialRules.rangeProfiles of weapons.json
RangeProfileRules ==
    <<[equippedName |-> "Thermal cannon",
       profiles |-> <<[weaponKey |-> "THERMAL_CANNON_HALF", maxRange |-> 2],
                      [weaponKey |-> "THERMAL_CANNON_MAX", maxRange |-> 4]>>]>>

\* no weapon has any ability (variant)
weaponHasNoAbility(profile, ability) == FALSE

weaponHasAbility(profile, ability) ==
    profile # NoProfile /\ ability \in profile.abilities

\* a rule with no band for the range hands the name on to the flat catalog (variant)
resolveProfileWithFallback(rules, equippedName, measuredRangeInches) ==
    LET InBand(pr) == measuredRangeInches <= pr.maxRange
        IsNamed(k) == CORE_WEAPONS[k].name = equippedName
        bands == {pr \in UNION {{rules[ri].profiles[ix] : ix \in DOMAIN rules[ri].profiles} :
                                  ri \in {rx \in DOMAIN rules : rules[rx].equippedName = equippedName}} :
                     InBand(pr)}
        wi == FindIndex({ix \in DOMAIN WeaponKeys : IsNamed(WeaponKeys[ix])})
    IN  IF bands # {}
        THEN CORE_WEAPONS[(CHOOSE pr \in bands : \A other \in bands : pr.maxRange <= other.maxRange).weaponKey]
        ELSE IF wi = 0 THEN NoProfile ELSE CORE_WEAPONS[WeaponKeys[wi]]

\* resolveWeaponProfileForEquippedName over the rules that getRangeProfileRules()
\* returns: the first rule of that name decides, its first band that holds the
\* range gives the profile, and a rule without such a band returns null
resolveProfileIn(rules, equippedName, measuredRangeInches) ==
    LET IsRule(r) == r.equippedName = equippedName
        ri == FindIndex({ix \in DOMAIN rules : IsRule(rules[ix])})
        InBand(pr) == measuredRangeInches <= pr.maxRange
        IsNamed(k) == CORE_WEAPONS[k].name = equippedName
    IN  IF ri # 0
        THEN LET pi == FindIndex({ix \in DOMAIN rules[ri].profiles : InBand(rules[ri].profiles[ix])})
             IN  IF pi = 0 THEN NoProfile
                 ELSE CORE_WEAPONS[rules[ri].profiles[pi].weaponKey]
        ELSE LET wi == FindIndex({ix \in DOMAIN WeaponKeys : IsNamed(WeaponKeys[ix])})
             IN  IF wi = 0 THEN NoProfile ELSE CORE_WEAPONS[WeaponKeys[wi]]

resolveWeaponProfileForEquippedName(equippedName, measuredRangeInches) ==
    resolveProfileIn(RangeProfileRules, equippedName, measuredRangeInches)

-----------------------------------------------------------------------------
(* resolve-attack.ts *)

verticalShift(attackType, roll) ==
    CASE attackType = "AIMED" ->
            (CASE roll = 1 -> [dir |-> "UP", shift |-> 1]
               [] roll = 6 -> [dir |-> "DOWN", shift |-> 1]
               [] OTHER -> [dir |-> "HIT", shift |-> 0])
      [] attackType = "STANDARD" ->
            (CASE roll = 1 -> [dir |-> "UP", shift |-> 2]
               [] roll = 2 -> [dir |-> "UP", shift |-> 1]
               [] roll = 5 -> [dir |-> "DOWN", shift |-> 1]
               [] roll = 6 -> [dir |-> "DOWN", shift |-> 2]
               [] OTHER -> [dir |-> "HIT", shift |-> 0])
      [] OTHER ->
            (CASE roll = 1 -> [dir |-> "UP", shift |-> 3]
               [] roll = 2 -> [dir |-> "UP", shift |-> 2]
               [] roll = 3 -> [dir |-> "UP", shift |-> 1]
               [] roll = 4 -> [dir |-> "DOWN", shift |-> 1]
               [] roll = 5 -> [dir |-> "DOWN", shift |-> 2]
               [] OTHER -> [dir |-> "DOWN", shift |-> 3])

horizontalShift(attackType, roll) ==
    CASE attackType = "AIMED" ->
            (CASE roll = 1 -> [dir |-> "LEFT", shift |-> 1]
               [] roll = 6 -> [dir |-> "RIGHT", shift |-> 1]
               [] OTHER -> [dir |-> "HIT", shift |-> 0])
      [] attackType = "STANDARD" ->
            (CASE roll = 1 -> [dir |-> "LEFT", shift |-> 2]
               [] roll = 2 -> [dir |-> "LEFT", shift |-> 1]
               [] roll = 5 -> [dir |-> "RIGHT", shift |-> 1]
               [] roll = 6 -> [dir |-> "RIGHT", shift |-> 2]
               [] OTHER -> [dir |-> "HIT", shift |-> 0])
      [] OTHER ->
            (CASE roll = 1 -> [dir |-> "LEFT", shift |-> 3]
               [] roll = 2 -> [dir |-> "LEFT", shift |-> 2]
               [] roll = 3 -> [dir |-> "LEFT", shift |-> 1]
               [] roll = 4 -> [dir |-> "RIGHT", shift |-> 1]
               [] roll = 5 -> [dir |-> "RIGHT", shift |-> 2]
               [] OTHER -> [dir |-> "RIGHT", shift |-> 3])

\* a die of DiceOverrides that is not supplied
NoDie == 0
NoDice ==
    [red |-> NoDie, blue |-> NoDie, ionSave |-> NoDie, save |-> NoDie,
     damageD6 |-> NoDie, damageD3 |-> NoDie]

\* dice.x ?? rollD6(): rolled is the value rollD6() returns when it is called
Die(override, rolled) == IF override # NoDie THEN override ELSE rolled

\* Math.ceil(n / 2)
CeilHalf(n) == (n + 1) \div 2

NoIonSave == [attempted |-> FALSE, die |-> 0, needed |-> 0, success |-> FALSE]
NoArmourSave == [roll |-> 0, die |-> 0, needed |-> 0, ap |-> 0, cover |-> FALSE]
NoScatter == [red |-> 0, blue |-> 0, dx |-> 0, dy |-> 0]

Outcome(kind, args, finalCellId, reason, arc, savedBy, ionSave, armourSave, damage, destroyed, scatter) ==
    [kind |-> kind, targetCellId |-> args.targetCellId, finalCellId |-> finalCellId,
     reason |-> reason, incomingArc |-> arc, savedBy |-> savedBy, ionSave |-> ionSave,
     armourSave |-> armourSave, damage |-> damage, destroyed |-> destroyed,
     scatter |-> scatter]

\* the save and the damage without the arc's AP step and damage bonus (variant)
ArmourSaveAndDamageNoArc(args, rolls, li, arc, ionSave, scatter) ==
    LET defender == args.defender
        weapon == args.weapon
        dice == args.dice
        liveCell == defender.grid.cells[li]
        damageBonus == 0
        apBonus == 0
        saveDie == Die(dice.save, rolls.save)
        coverBonus == IF args.targetObscured THEN 1 ELSE 0
        effectiveAp == weapon.ap + apBonus
        saveRoll == saveDie + effectiveAp + coverBonus
        saveNeeded == 5
        armourSave == [roll |-> saveRoll, die |-> saveDie, needed |-> saveNeeded,
                       ap |-> effectiveAp, cover |-> coverBonus = 1]
        rawDamage ==
            IF weapon.damage.type = "flat" THEN weapon.damage.value
            ELSE IF weapon.damage.dice = "D6" THEN Die(dice.damageD6, rolls.damageD6)
            ELSE IF weapon.damage.dice = "D3"
                 THEN (IF dice.damageD3 # NoDie THEN dice.damageD3
                       ELSE CeilHalf(Die(dice.damageD6, rolls.damageD6)))
            ELSE 0
        damage == Max(0, rawDamage + damageBonus)
        hitDefender == applyDamageToCell(defender, li, damage)
    IN  IF saveRoll >= saveNeeded
        THEN [outcome |-> Outcome("SAVED", args, liveCell.id, "", arc, "ARMOUR", ionSave,
                                  armourSave, 0, FALSE, scatter),
              defender |-> defender]
        ELSE [outcome |-> Outcome("HIT", args, liveCell.id, "", arc, "", ionSave,
                                  armourSave, damage, isKnightDestroyed(hitDefender),
                                  scatter),
              defender |-> hitDefender]

\* the outcome from the armour save on: SAVED by armour, or damage and HIT
\* a saved shot still takes the armour off the cell (variant)
ArmourSaveAndDamageThrough(args, rolls, li, arc, ionSave, scatter) ==
    LET defender == args.defender
        weapon == args.weapon
        dice == args.dice
        liveCell == defender.grid.cells[li]
        damageBonus == IF arc \in {"LEFT", "RIGHT", "REAR"} THEN 1 ELSE 0
        apBonus == IF arc = "REAR" THEN -1 ELSE 0
        saveDie == Die(dice.save, rolls.save)
        coverBonus == IF args.targetObscured THEN 1 ELSE 0
        effectiveAp == weapon.ap + apBonus
        saveRoll == saveDie + effectiveAp + coverBonus
        saveNeeded == 5
        armourSave == [roll |-> saveRoll, die |-> saveDie, needed |-> saveNeeded,
                       ap |-> effectiveAp, cover |-> coverBonus = 1]
        rawDamage ==
            IF weapon.damage.type = "flat" THEN weapon.damage.value
            ELSE IF weapon.damage.dice = "D6" THEN Die(dice.damageD6, rolls.damageD6)
            ELSE IF weapon.damage.dice = "D3"
                 THEN (IF dice.damageD3 # NoDie THEN dice.damageD3
                       ELSE CeilHalf(Die(dice.damageD6, rolls.damageD6)))
            ELSE 0
        damage == Max(0, rawDamage + damageBonus)
        hitDefender == applyDamageToCell(defender, li, damage)
    IN  IF saveRoll >= saveNeeded
        THEN [outcome |-> Outcome("SAVED", args, liveCell.id, "", arc, "ARMOUR", ionSave,
                                  armourSave, 0, FALSE, scatter),
              defender |-> hitDefender]
        ELSE [outcome |-> Outcome("HIT", args, liveCell.id, "", arc, "", ionSave,
                                  armourSave, damage, isKnightDestroyed(hitDefender),
                                  scatter),
              defender |-> hitDefender]

ArmourSaveAndDamage(args, rolls, li, arc, ionSave, scatter) ==
    LET defender == args.defender
        weapon == args.weapon
        dice == args.dice
        liveCell == defender.grid.cells[li]
        damageBonus == IF arc \in {"LEFT", "RIGHT", "REAR"} THEN 1 ELSE 0
        apBonus == IF arc = "REAR" THEN -1 ELSE 0
        saveDie == Die(dice.save, rolls.save)
        coverBonus == IF args.targetObscured THEN 1 ELSE 0
        effectiveAp == weapon.ap + apBonus
        saveRoll == saveDie + effectiveAp + coverBonus
        saveNeeded == 5
        armourSave == [roll |-> saveRoll, die |-> saveDie, needed |-> saveNeeded,
                       ap |-> effectiveAp, cover |-> coverBonus = 1]
        rawDamage ==
            IF weapon.damage.type = "flat" THEN weapon.damage.value
            ELSE IF weapon.damage.dice = "D6" THEN Die(dice.damageD6, rolls.damageD6)
            ELSE IF weapon.damage.dice = "D3"
                 THEN (IF dice.damageD3 # NoDie THEN dice.damageD3
                       ELSE CeilHalf(Die(dice.damageD6, rolls.damageD6)))
            ELSE 0
        damage == Max(0, rawDamage + damageBonus)
        hitDefender == applyDamageToCell(defender, li, damage)
    IN  IF saveRoll >= saveNeeded
        THEN [outcome |-> Outcome("SAVED", args, liveCell.id, "", arc, "ARMOUR", ionSave,
                                  armourSave, 0, FALSE, scatter),
              defender |-> defender]
        ELSE [outcome |-> Outcome("HIT", args, liveCell.id, "", arc, "", ionSave,
                                  armourSave, damage, isKnightDestroyed(hitDefender),
                                  scatter),
              defender |-> hitDefender]

\* the Ion save taken by every attack, melee and off-arc included (variant)
ResolveAtCellIonForAll(args, rolls, fi, arc, scatter) ==
    LET defender == args.defender
        weapon == args.weapon
        shieldArc == "FRONT"
        IsFinal(c) == c.id = defender.grid.cells[fi].id
        li == FindIndex({ix \in DOMAIN defender.grid.cells : IsFinal(defender.grid.cells[ix])})
        liveCell == defender.grid.cells[li]
        ionApplies == TRUE
        ionDie == Die(args.dice.ionSave, rolls.ionSave)
        ionSave == IF ionApplies
                   THEN [attempted |-> TRUE, die |-> ionDie, needed |-> 4,
                         success |-> ionDie >= 4]
                   ELSE NoIonSave
    IN  IF liveCell.armorPoints <= 0
        THEN [outcome |-> Outcome("MISS", args, liveCell.id, "no armour", arc, "",
                                  NoIonSave, NoArmourSave, 0, FALSE, scatter),
              defender |-> defender]
        ELSE IF ionApplies /\ ionSave.success
        THEN [outcome |-> Outcome("SAVED", args, liveCell.id, "", arc, "ION", ionSave,
                                  NoArmourSave, 0, FALSE, scatter),
              defender |-> defender]
        ELSE ArmourSaveAndDamage(args, rolls, li, arc, ionSave, scatter)

\* the outcome once the final cell is known: zero-armour check, Ion save, then the rest
\* a final cell without armour is resolved like any other (variant)
ResolveAtCellAnyArmour(args, rolls, fi, arc, scatter) ==
    LET defender == args.defender
        weapon == args.weapon
        shieldArc == "FRONT"
        IsFinal(c) == c.id = defender.grid.cells[fi].id
        li == FindIndex({ix \in DOMAIN defender.grid.cells : IsFinal(defender.grid.cells[ix])})
        liveCell == defender.grid.cells[li]
        ionApplies == weapon.scatter /\ arc = shieldArc
        ionDie == Die(args.dice.ionSave, rolls.ionSave)
        ionSave == IF ionApplies
                   THEN [attempted |-> TRUE, die |-> ionDie, needed |-> 4,
                         success |-> ionDie >= 4]
                   ELSE NoIonSave
    IN  IF ionApplies /\ ionSave.success
        THEN [outcome |-> Outcome("SAVED", args, liveCell.id, "", arc, "ION", ionSave,
                                  NoArmourSave, 0, FALSE, scatter),
              defender |-> defender]
        ELSE ArmourSaveAndDamage(args, rolls, li, arc, ionSave, scatter)

ResolveAtCell(args, rolls, fi, arc, scatter) ==
    LET defender == args.defender
        weapon == args.weapon
        shieldArc == "FRONT"
        IsFinal(c) == c.id = defender.grid.cells[fi].id
        li == FindIndex({ix \in DOMAIN defender.grid.cells : IsFinal(defender.grid.cells[ix])})
        liveCell == defender.grid.cells[li]
        ionApplies == weapon.scatter /\ arc = shieldArc
        ionDie == Die(args.dice.ionSave, rolls.ionSave)
        ionSave == IF ionApplies
                   THEN [attempted |-> TRUE, die |-> ionDie, needed |-> 4,
                         success |-> ionDie >= 4]
                   ELSE NoIonSave
    IN  IF liveCell.armorPoints <= 0
        THEN [outcome |-> Outcome("MISS", args, liveCell.id, "no armour", arc, "",
                                  NoIonSave, NoArmourSave, 0, FALSE, scatter),
              defender |-> defender]
        ELSE IF ionApplies /\ ionSave.success
        THEN [outcome |-> Outcome("SAVED", args, liveCell.id, "", arc, "ION", ionSave,
                                  NoArmourSave, 0, FALSE, scatter),
              defender |-> defender]
        ELSE ArmourSaveAndDamage(args, rolls, li, arc, ionSave, scatter)

\* the shot is resolved at the chosen cell whatever the scatter dice (variant)
resolveAttackAtTarget(args, rolls) ==
    LET defender == args.defender
        arc == incomingArc(args.defenderPos, args.defenderFacing, args.attackerPos)
        IsTarget(c) == c.id = args.targetCellId
        si == FindIndex({ix \in DOMAIN defender.grid.cells : IsTarget(defender.grid.cells[ix])})
    IN  IF si = 0
        THEN [outcome |-> Outcome("MISS", args, "null", "target cell not found", arc, "",
                                  NoIonSave, NoArmourSave, 0, FALSE, NoScatter),
              defender |-> defender]
        ELSE ResolveAtCell(args, rolls, si, arc, NoScatter)

\* args: the arguments of the call (defenderArmourSaveBonus is passed by the
\* orchestrator; the function does not read it); rolls: what each rollD6() returns.
\* The result is the AttackOutcome and the defender as the call leaves it.
resolveAttackMutating(args, rolls) ==
    LET defender == args.defender
        weapon == args.weapon
        arc == incomingArc(args.defenderPos, args.defenderFacing, args.attackerPos)
        horizMod == IF arc = "LEFT" THEN -1 ELSE IF arc = "RIGHT" THEN 1 ELSE 0
        IsTarget(c) == c.id = args.targetCellId
        si == FindIndex({ix \in DOMAIN defender.grid.cells : IsTarget(defender.grid.cells[ix])})
        startCell == defender.grid.cells[si]
        redRaw == Die(args.dice.red, rolls.red)
        red == Max(1, Min(6, redRaw + horizMod))
        blue == Die(args.dice.blue, rolls.blue)
        hs == horizontalShift(args.attackType, red)
        vs == verticalShift(args.attackType, blue)
        dx == IF hs.dir = "LEFT" THEN -hs.shift ELSE IF hs.dir = "RIGHT" THEN hs.shift ELSE 0
        dy == IF vs.dir = "UP" THEN -vs.shift ELSE IF vs.dir = "DOWN" THEN vs.shift ELSE 0
        nx == startCell.x + dx
        ny == startCell.y + dy
        scatter == IF weapon.scatter
                   THEN [red |-> red, blue |-> blue, dx |-> dx, dy |-> dy]
                   ELSE NoScatter
        IsAt(c) == c.x = nx /\ c.y = ny
        fi == IF ~weapon.scatter THEN si
              ELSE IF nx < 0 \/ ny < 0 \/ nx >= defender.grid.width
                      \/ ny >= defender.grid.height THEN 0
              ELSE FindIndex({ix \in DOMAIN defender.grid.cells : IsAt(defender.grid.cells[ix])})
    IN  IF si = 0
        THEN [outcome |-> Outcome("MISS", args, "null", "target cell not found", arc, "",
                                  NoIonSave, NoArmourSave, 0, FALSE, NoScatter),
              defender |-> defender]
        ELSE IF fi = 0
        THEN [outcome |-> Outcome("MISS", args, "null", "off-grid", arc, "",
                                  NoIonSave, NoArmourSave, 0, FALSE, scatter),
              defender |-> defender]
        ELSE ResolveAtCell(args, rolls, fi, arc, scatter)

-----------------------------------------------------------------------------
(* terrain.ts: segments against axis-aligned rectangles, exactly, with the *)
(* parameter t kept as a fraction num/den, den > 0.                        *)

FracLess(a, b) == a.num * b.den < b.num * a.den

\* one clip(p, q) call of segmentEnterT on the window st = [ok, t0, t1]
Clip(st, p, q) ==
    IF ~st.ok THEN st
    ELSE IF p = 0 THEN (IF q < 0 THEN [st EXCEPT !.ok = FALSE] ELSE st)
    ELSE LET t == IF p < 0 THEN [num |-> -q, den |-> -p] ELSE [num |-> q, den |-> p]
         IN  IF p < 0
             THEN (IF FracLess(st.t1, t) THEN [st EXCEPT !.ok = FALSE]
                   ELSE IF FracLess(st.t0, t) THEN [st EXCEPT !.t0 = t] ELSE st)
             ELSE (IF FracLess(t, st.t0) THEN [st EXCEPT !.ok = FALSE]
                   ELSE IF FracLess(t, st.t1) THEN [st EXCEPT !.t1 = t] ELSE st)

\* Liang-Barsky: [ok |-> the segment meets r, t0 |-> the entry parameter]
segmentEnterT(a, b, r) ==
    LET dx == b.x - a.x
        dy == b.y - a.y
        s0 == [ok |-> TRUE, t0 |-> [num |-> 0, den |-> 1], t1 |-> [num |-> 1, den |-> 1]]
        s1 == Clip(s0, -dx, a.x - r.x)
        s2 == Clip(s1, dx, (r.x + r.w) - a.x)
        s3 == Clip(s2, -dy, a.y - r.y)
    IN  Clip(s3, dy, (r.y + r.h) - a.y)

segmentIntersectsRects(a, b, rects) ==
    \E i \in 1..Len(rects) : segmentEnterT(a, b, rects[i]).ok

\* the loop of computeLosEffects from piece i on
RECURSIVE LosFrom(_, _, _, _, _, _)
LosFrom(a, b, terrain, i, obscured, crossesAnyCover) ==
    IF i > Len(terrain)
    THEN [blocked |-> FALSE, obscured |-> obscured, crossesAnyCover |-> crossesAnyCover]
    ELSE IF ~segmentIntersectsRects(a, b, terrain[i].rects)
    THEN LosFrom(a, b, terrain, i + 1, obscured, crossesAnyCover)
    ELSE IF terrain[i].type = "HARD"
    THEN [blocked |-> TRUE, obscured |-> FALSE, crossesAnyCover |-> TRUE]
    ELSE LosFrom(a, b, terrain, i + 1, obscured \/ terrain[i].type = "SOFT", TRUE)

\* every piece is looked at and soft cover counts although hard cover is
\* crossed (variant)
computeLosEffectsNoShortCircuit(a, b, terrain) ==
    LET Crossed(kind) == \E i \in 1..Len(terrain) :
                            /\ terrain[i].type = kind
                            /\ segmentIntersectsRects(a, b, terrain[i].rects)
    IN  [blocked |-> Crossed("HARD"), obscured |-> Crossed("SOFT"),
         crossesAnyCover |-> Crossed("HARD") \/ Crossed("SOFT")]

\* only hard cover counts as cover crossed (variant)
computeLosEffectsHardOnly(a, b, terrain) ==
    LET los == LosFrom(a, b, terrain, 1, FALSE, FALSE)
    IN  [los EXCEPT !.crossesAnyCover = los.blocked]

computeLosEffects(a, b, terrain) == LosFrom(a, b, terrain, 1, FALSE, FALSE)

-----------------------------------------------------------------------------
(* execute-turn.ts: geometry and movement *)

\* the board of findPathManhattan (boardSize, 48 in the code), scaled down
BoardSize == 5

\* the largest r with r * r <= n
Isqrt(n) == CHOOSE r \in 0..n : r * r <= n /\ n < (r + 1) * (r + 1)

\* Math.round(dist(a, b)): the k with (k - 1/2)^2 <= d2 < (k + 1/2)^2
RoundDist(a, b) ==
    LET d2 == (a.x - b.x) * (a.x - b.x) + (a.y - b.y) * (a.y - b.y)
        r == Isqrt(d2)
    IN  IF d2 > r * r + r THEN r + 1 ELSE r

\* A distance allowance is kept exactly as sqrt(sq) - k (sq, k naturals):
\* a whole number n is [sq |-> n * n, k |-> 0], dist(a, b) is [sq |-> d2, k |-> 0].
Whole(n) == [sq |-> n * n, k |-> 0]
DistOf(a, b) ==
    [sq |-> (a.x - b.x) * (a.x - b.x) + (a.y - b.y) * (a.y - b.y), k |-> 0]
\* Math.max(0, a - n)
MinusFloor0(a, n) ==
    IF a.sq <= (a.k + n) * (a.k + n) THEN Whole(0) ELSE [a EXCEPT !.k = @ + n]
\* a >= n, Math.floor(a), a <= 1e-6
AtLeast(a, n) == a.sq >= (a.k + n) * (a.k + n)
FloorOf(a) == Isqrt(a.sq) - a.k
Spent(a) == a.sq <= a.k * a.k

\* the far edges of a terrain rectangle block as well (variant)
isBlockedClosed(x, y, terrain) ==
    \/ x < 0 \/ y < 0 \/ x > BoardSize \/ y > BoardSize
    \/ \E i \in 1..Len(terrain) : \E j \in 1..Len(terrain[i].rects) :
          LET r == terrain[i].rects[j]
          IN  x >= r.x /\ x <= r.x + r.w /\ y >= r.y /\ y <= r.y + r.h

isBlocked(x, y, terrain) ==
    \/ x < 0 \/ y < 0 \/ x > BoardSize \/ y > BoardSize
    \/ \E i \in 1..Len(terrain) : \E j \in 1..Len(terrain[i].rects) :
          LET r == terrain[i].rects[j]
          IN  x >= r.x /\ x < r.x + r.w /\ y >= r.y /\ y < r.y + r.h

Dirs == <<[dx |-> 1, dy |-> 0], [dx |-> -1, dy |-> 0], [dx |-> 0, dy |-> 1],
          [dx |-> 0, dy |-> -1]>>

\* the walk back along prev from the goal to the start
RECURSIVE Reconstruct(_, _, _)
Reconstruct(prev, node, start) ==
    IF node = start \/ node \notin DOMAIN prev THEN <<node>>
    ELSE Append(Reconstruct(prev, prev[node], start), node)

\* the for-loop over dirs for the node cur, from direction di on
RECURSIVE Expand(_, _, _, _, _)
Expand(st, cur, di, goal, terrain) ==
    IF di > Len(Dirs) \/ st.found THEN st
    ELSE LET n == [x |-> cur.x + Dirs[di].dx, y |-> cur.y + Dirs[di].dy]
         IN  IF n \in st.seen \/ isBlocked(n.x, n.y, terrain)
             THEN Expand(st, cur, di + 1, goal, terrain)
             ELSE IF n = goal
             THEN [st EXCEPT !.found = TRUE, !.prev = (n :> cur) @@ @]
             ELSE Expand([st EXCEPT !.prev = (n :> cur) @@ @,
                                    !.seen = @ \cup {n},
                                    !.q = Append(@, n)],
                         cur, di + 1, goal, terrain)

\* the while-loop over the queue
RECURSIVE Bfs(_, _, _)
Bfs(st, goal, terrain) ==
    IF st.found \/ Len(st.q) = 0 THEN st
    ELSE Bfs(Expand([st EXCEPT !.q = Tail(@)], Head(st.q), 1, goal, terrain),
             goal, terrain)

\* the node list from start to goal, or <<>> for null (start and goal are whole)
findPathManhattan(start, goal, terrain) ==
    IF isBlocked(start.x, start.y, terrain) \/ isBlocked(goal.x, goal.y, terrain)
    THEN <<>>
    ELSE IF start = goal THEN <<start>>
    ELSE LET st == Bfs([found |-> FALSE, q |-> <<start>>, seen |-> {start},
                        prev |-> <<>>], goal, terrain)
         IN  IF st.found THEN Reconstruct(st.prev, goal, start) ELSE <<>>

NoPoint == [x |-> -1, y |-> -1]

\* the smallest entry parameter over every rectangle of every piece, or not ok
earliestObstacleEnterT(a, b, terrain) ==
    LET Entered(hits) ==
            IF hits = {} THEN [ok |-> FALSE, t0 |-> [num |-> 0, den |-> 1]]
            ELSE [ok |-> TRUE,
                  t0 |-> (CHOOSE h \in hits : \A u \in hits : ~FracLess(u.t0, h.t0)).t0]
    IN  Only({Entered({h \in all : h.ok}) :
                 all \in {UNION {{segmentEnterT(a, b, terrain[i].rects[j]) :
                                     j \in 1..Len(terrain[i].rects)} :
                                 i \in 1..Len(terrain)}}})

\* Math.round(num / den) for den > 0: halves go up
RoundFrac(num, den) == (2 * num + den) \div (2 * den)

\* Math.round of each coordinate of the point clampMoveByTerrain returns: the
\* point at t = max(0, te - 1e-3) of the segment, or `to` when nothing is entered
ClampAt(te, from, to) ==
    LET num == 1000 * te.t0.num - te.t0.den
        den == 1000 * te.t0.den
    IN  IF ~te.ok THEN to
        ELSE IF num <= 0 THEN from
        ELSE [x |-> RoundFrac(from.x * den + (to.x - from.x) * num, den),
              y |-> RoundFrac(from.y * den + (to.y - from.y) * num, den)]

clampMoveByTerrain(from, to, terrain) ==
    Only({ClampAt(te, from, to) : te \in {earliestObstacleEnterT(from, to, terrain)}})

\* remaining >= sqrt(d2), for remaining = sqrt(sq) - k
Covers(remaining, d2) ==
    LET slack == remaining.sq - remaining.k * remaining.k - d2
    IN  slack >= 0 /\ slack * slack >= 4 * remaining.k * remaining.k * d2

\* The loop of moveAlongWaypoints from waypoint i on. Positions and waypoints
\* are whole-inch points. The straight-line fallback is taken when no grid path
\* of two nodes exists: for a waypoint equal to the current point it moves
\* nothing. For any other waypoint (blocked, off the board or cut off) that the
\* allowance covers, the move is clamped at the first obstacle, which ends the
\* walk at a point between the cells: the result is that point rounded, as
\* every caller rounds it; with no obstacle on the line the waypoint is reached.
\* The point of moveTowards for an allowance short of the waypoint, and an
\* allowance left after a diagonal fallback move, are not whole or rational:
\* they are outside this model and the result is NoPoint.
\* one pass of the loop body for the waypoint wp with the grid path found for
\* it: the point reached, the allowance left and whether the loop is left
\* (break); last says that no waypoint is plotted behind wp
WalkLegOn(path, cur, wp, remaining, terrain, last) ==
    LET stepsToGoal == Len(path) - 1
        d2 == DistOf(cur, wp).sq
        routed == [remaining EXCEPT !.k = @ + stepsToGoal]
        left == [remaining EXCEPT !.k = @ + Isqrt(d2)]
        Stop(to) == [to |-> to, left |-> remaining, stop |-> TRUE]
    IN  IF Len(path) >= 2
        THEN (IF AtLeast(remaining, stepsToGoal)
              THEN [to |-> wp, left |-> routed, stop |-> Spent(routed)]
              ELSE Stop(path[Max(0, Min(stepsToGoal, FloorOf(remaining))) + 1]))
        ELSE IF wp = cur THEN [to |-> cur, left |-> remaining, stop |-> Spent(remaining)]
        ELSE IF Spent(remaining) THEN Stop(cur)
        ELSE IF ~Covers(remaining, d2) THEN Stop(NoPoint)
        ELSE IF earliestObstacleEnterT(cur, wp, terrain).ok
        THEN Stop(clampMoveByTerrain(cur, wp, terrain))
        ELSE IF last THEN Stop(wp)
        ELSE IF Isqrt(d2) * Isqrt(d2) # d2 THEN Stop(NoPoint)
        ELSE [to |-> wp, left |-> left, stop |-> Spent(left)]

\* the loop body for wp; an undefined waypoint is passed over (continue)
WalkLeg(cur, wp, remaining, terrain, last) ==
    IF wp = NoPoint THEN [to |-> cur, left |-> remaining, stop |-> FALSE]
    ELSE Only({WalkLegOn(path, cur, wp, remaining, terrain, last) :
                  path \in {findPathManhattan(cur, wp, terrain)}})

\* the loop of moveAlongWaypoints from waypoint i on
RECURSIVE WalkWaypoints(_, _, _, _, _)
WalkWaypoints(cur, waypoints, i, remaining, terrain) ==
    IF i > Len(waypoints) THEN cur
    ELSE LET last == \A n \in (i + 1)..Len(waypoints) : waypoints[n] = NoPoint
         IN  Only({IF leg.stop THEN leg.to
                   ELSE WalkWaypoints(leg.to, waypoints, i + 1, leg.left, terrain) :
                      leg \in {WalkLeg(cur, waypoints[i], remaining, terrain, last)}})

\* the move heads for the last waypoint only (variant)
moveToLastWaypoint(from, waypoints, maxDist, terrain) ==
    WalkWaypoints(from, <<waypoints[Len(waypoints)]>>, 1, maxDist, terrain)

\* every waypoint is walked to with the whole allowance (variant)
RECURSIVE moveEachWaypointAfresh(_, _, _, _)
moveEachWaypointAfresh(from, waypoints, maxDist, terrain) ==
    IF waypoints = <<>> \/ from = NoPoint THEN from
    ELSE moveEachWaypointAfresh(
            WalkWaypoints(from, <<Head(waypoints)>>, 1, maxDist, terrain),
            Tail(waypoints), maxDist, terrain)

moveAlongWaypoints(from, waypoints, maxDist, terrain) ==
    WalkWaypoints(from, waypoints, 1, maxDist, terrain)

isRangedWeapon(profile) == profile.scatter = TRUE

weaponTargetKeyForMount(mount) ==
    CASE mount = "CARAPACE" -> "CARAPACE"
      [] mount = "TORSO" -> "TORSO"
      [] mount = "ARM_LEFT" -> "ARM_LEFT_PRIMARY"
      [] mount = "ARM_RIGHT" -> "ARM_RIGHT_PRIMARY"
      [] OTHER -> "DEFAULT"

-----------------------------------------------------------------------------
(* App.tsx: makeKnight *)

\* chassis.baseActionPoints (content data)
BaseActionPoints == 4

\* weapons.push({ name, mount, disabled: false })
Mounted(name, mount) == [name |-> name, mount |-> mount, disabled |-> FALSE]

makeKnight(name, loadout) ==
    [name |-> name,
     grid |-> instantiateGrid(GridTemplate),
     maxActionPoints |-> BaseActionPoints,
     movementPenalty |-> 0,
     canRotateIonShields |-> TRUE,
     weapons |-> loadout,
     critEffects |-> [i \in 1..Len(GridTemplate.cells) |-> 0]]

NoPlans == [P1 |-> [actions |-> <<>>], P2 |-> [actions |-> <<>>]]

-----------------------------------------------------------------------------
(* execute-turn.ts: TurnInputs. An optional field that is left out is kept  *)
(* as Absent (numbers), NoPoint (points), "" (cell ids) or present = FALSE  *)
(* (whole choices).                                                         *)

Absent == -1

Pt(x, y) == [x |-> x, y |-> y]

\* AttackChoice { targetCellId, dice }
Atk(targetCellId, dice) == [present |-> TRUE, targetCellId |-> targetCellId, dice |-> dice]
NoAtk == [present |-> FALSE, targetCellId |-> "", dice |-> NoDice]

\* MoveChoice2D { dest?, distanceInches?, endFacingDeg? }
Mv(dest, distanceInches, endFacingDeg) ==
    [present |-> TRUE, dest |-> dest, distanceInches |-> distanceInches,
     endFacingDeg |-> endFacingDeg]
NoMv == [present |-> FALSE, dest |-> NoPoint, distanceInches |-> Absent,
         endFacingDeg |-> Absent]

\* setInputs({ P1: {}, P2: {} }); CHARGE holds the move of the Charge choice
NoInput ==
    [SNAP_ATTACK |-> NoAtk, STANDARD_ATTACK |-> NoAtk, AIMED_ATTACK |-> NoAtk,
     ADVANCE |-> NoMv, RUN |-> NoMv, CHARGE |-> NoMv]
NoInputs == [P1 |-> NoInput, P2 |-> NoInput]

NoTarget ==
    [CARAPACE |-> "", TORSO |-> "", ARM_LEFT_PRIMARY |-> "", ARM_RIGHT_PRIMARY |-> "",
     DEFAULT |-> ""]
NoTargets == [P1 |-> NoTarget, P2 |-> NoTarget]

\* a ?? b on cell ids
OrElse(a, b) == IF a # "" THEN a ELSE b

-----------------------------------------------------------------------------
(* The matches played: chassis movement data, loadouts, spawns, terrain and *)
(* the orders (plans, inputs, weapon targets) the two planners may lock in. *)

\* chassis.movement.advanceInches (content data)
AdvanceInches == 2

\* dice overrides: all dice fixed so that the shot lands and wounds
DiceHit(red, blue) ==
    [red |-> red, blue |-> blue, ionSave |-> 1, save |-> 1, damageD6 |-> 6, damageD3 |-> NoDie]
\* scatter fixed, Ion die fixed, armour save die fixed
DiceSave(red, blue, ion, save) ==
    [red |-> red, blue |-> blue, ionSave |-> ion, save |-> save, damageD6 |-> 6,
     damageD3 |-> NoDie]
\* scatter fixed on the target, the save dice rolled
DiceAimOnly == [NoDice EXCEPT !.red = 3, !.blue = 3]

Order(planP1, planP2, inP1, inP2, wtP1, wtP2) ==
    [plans |-> [P1 |-> [actions |-> planP1], P2 |-> [actions |-> planP2]],
     inputs |-> [P1 |-> inP1, P2 |-> inP2],
     weaponTargets |-> [P1 |-> wtP1, P2 |-> wtP2]]

FullBattery ==
    <<Mounted("Rapid-fire battle cannon", "CARAPACE"),
      Mounted("Thermal cannon", "TORSO"),
      Mounted("Ironstorm missile pod", "ARM_RIGHT"),
      Mounted("Reaper chainsword", "ARM_LEFT")>>

LightLoadout ==
    <<Mounted("Rapid-fire battle cannon", "CARAPACE"),
      Mounted("Heavy stubber", "TORSO"),
      Mounted("Reaper chainsword", "ARM_LEFT")>>

\* per-mount targets of the battery
Spread == [NoTarget EXCEPT !.CARAPACE = "A2", !.TORSO = "A4", !.ARM_RIGHT_PRIMARY = "B4"]

\* Duel: open ground, the Knights face each other at 3 inches.
DuelOrders ==
    { \* nothing planned
      Order(<<>>, <<>>, NoInput, NoInput, NoTarget, NoTarget),
      \* over budget: Aimed + Standard is 5 AP
      Order(<<"AIMED_ATTACK", "STANDARD_ATTACK">>, <<"ADVANCE">>,
            [NoInput EXCEPT !.AIMED_ATTACK = Atk("A3", DiceHit(3, 3)),
                            !.STANDARD_ATTACK = Atk("A3", DiceHit(3, 3))],
            [NoInput EXCEPT !.ADVANCE = Mv(Pt(4, 3), AdvanceInches, Absent)],
            NoTarget, NoTarget),
      \* P1 fires Snap and Standard with every weapon (six cells, the shield
      \* generator B3 among the first three); P2 rotates and fires back
      Order(<<"SNAP_ATTACK", "STANDARD_ATTACK">>, <<"ROTATE_ION_SHIELDS", "STANDARD_ATTACK">>,
            [NoInput EXCEPT !.SNAP_ATTACK = Atk("A3", DiceHit(3, 4)),
                            !.STANDARD_ATTACK = Atk("A3", DiceHit(3, 3))],
            [NoInput EXCEPT !.STANDARD_ATTACK = Atk("C3", DiceAimOnly)],
            Spread, NoTarget),
      \* P1 knocks out the shield generator (B3) with a Snap shot, then fires
      \* again with the Ion die on 5
      Order(<<"SNAP_ATTACK", "STANDARD_ATTACK">>, <<"SNAP_ATTACK">>,
            [NoInput EXCEPT !.SNAP_ATTACK = Atk("A2", DiceHit(4, 4)),
                            !.STANDARD_ATTACK = Atk("B2", DiceSave(3, 3, 5, 1))],
            [NoInput EXCEPT !.SNAP_ATTACK = Atk("B2", DiceHit(3, 3))],
            [NoTarget EXCEPT !.TORSO = "C4", !.ARM_RIGHT_PRIMARY = "C4"], NoTarget),
      \* P2 rotates its shields; P1 fires Standard with the save die on 4, the
      \* missile pod at the carapace weapon cell A3
      Order(<<"STANDARD_ATTACK">>, <<"ROTATE_ION_SHIELDS", "ADVANCE">>,
            [NoInput EXCEPT !.STANDARD_ATTACK = Atk("C4", DiceSave(3, 3, 1, 4))],
            [NoInput EXCEPT !.ADVANCE = Mv(NoPoint, AdvanceInches, 180)],
            [NoTarget EXCEPT !.ARM_RIGHT_PRIMARY = "A3"], NoTarget),
      \* both move: P1 advances and charges, P2 runs and charges
      Order(<<"ADVANCE", "CHARGE">>, <<"RUN", "CHARGE">>,
            [NoInput EXCEPT !.ADVANCE = Mv(Pt(2, 2), AdvanceInches, Absent),
                            !.CHARGE = Mv(NoPoint, Absent, Absent)],
            [NoInput EXCEPT !.RUN = Mv(Pt(4, 1), Absent, 180)],
            [NoTarget EXCEPT !.ARM_LEFT_PRIMARY = "A3"],
            [NoTarget EXCEPT !.ARM_LEFT_PRIMARY = "B2"]) }

\* Siege: a block of hard cover stands on the line between the Knights, which
\* start at 3 inches on the north edge.
SiegeOrders ==
    { \* over budget: Aimed + Standard is 5 AP
      Order(<<"AIMED_ATTACK", "STANDARD_ATTACK">>, <<>>,
            [NoInput EXCEPT !.AIMED_ATTACK = Atk("B2", DiceHit(4, 3)),
                            !.STANDARD_ATTACK = Atk("B2", DiceHit(4, 3))],
            NoInput, NoTarget, NoTarget),
      \* both fire Aimed across the block; P2 rotates first
      Order(<<"AIMED_ATTACK">>, <<"ROTATE_ION_SHIELDS", "AIMED_ATTACK">>,
            [NoInput EXCEPT !.AIMED_ATTACK = Atk("B2", DiceHit(4, 3))],
            [NoInput EXCEPT !.AIMED_ATTACK = Atk("B2", DiceHit(3, 3))],
            NoTarget, NoTarget),
      \* P1 advances south and stops short of its waypoint, fires Standard and
      \* runs on; P2 advances with 3 inches entered and charges
      \* toward the far corner
      Order(<<"ADVANCE", "STANDARD_ATTACK", "RUN">>, <<"ADVANCE", "CHARGE">>,
            [NoInput EXCEPT !.ADVANCE = Mv(Pt(1, 5), AdvanceInches, 0),
                            !.STANDARD_ATTACK = Atk("C2", DiceHit(3, 3)),
                            !.RUN = Mv(Pt(3, 3), Absent, Absent)],
            [NoInput EXCEPT !.ADVANCE = Mv(Pt(4, 5), AdvanceInches + 1, 180),
                            !.CHARGE = Mv(Pt(0, 0), Absent, Absent)],
            NoTarget, NoTarget),
      \* P2 advances with 1 inch entered; P1 rotates its shields
      Order(<<"ROTATE_ION_SHIELDS">>, <<"ADVANCE">>,
            NoInput,
            [NoInput EXCEPT !.ADVANCE = Mv(Pt(4, 5), 1, Absent)],
            NoTarget, NoTarget) }

\* Brawl: the Knights start at 3 inches with a piece of soft cover whose far
\* edge lies along the line between them; the orders are charges.
BrawlOrders ==
    { \* over budget: Aimed + Standard is 5 AP
      Order(<<"AIMED_ATTACK", "STANDARD_ATTACK">>, <<>>,
            [NoInput EXCEPT !.AIMED_ATTACK = Atk("B2", DiceHit(3, 3)),
                            !.STANDARD_ATTACK = Atk("B2", DiceHit(3, 3))],
            NoInput, NoTarget, NoTarget),
      \* P1 charges to the cell south of P2 and turns to it; P2 rotates its
      \* shields and fires Snap with every die overridden
      Order(<<"CHARGE">>, <<"ROTATE_ION_SHIELDS", "SNAP_ATTACK">>,
            [NoInput EXCEPT !.CHARGE = Mv(Pt(4, 3), Absent, 270)],
            [NoInput EXCEPT !.SNAP_ATTACK = Atk("B2", DiceHit(3, 3))],
            NoTarget, NoTarget),
      \* P1 charges to the cell west of P2, the corner of the cover on the line;
      \* P2 plans an Advance and enters nothing for it
      Order(<<"CHARGE">>, <<"ADVANCE">>,
            [NoInput EXCEPT !.CHARGE = Mv(Pt(3, 2), Absent, 0)],
            NoInput, NoTarget, NoTarget),
      \* both charge: P1 next to where P2 stands, P2 away to the north edge
      Order(<<"CHARGE">>, <<"CHARGE">>,
            [NoInput EXCEPT !.CHARGE = Mv(Pt(4, 3), Absent, 270)],
            [NoInput EXCEPT !.CHARGE = Mv(Pt(4, 0), Absent, 90)],
            NoTarget, NoTarget),
      \* P1 charges to the cell south of P2 and turns its back; P2 plans a Run
      \* and enters nothing for it
      Order(<<"CHARGE">>, <<"RUN">>,
            [NoInput EXCEPT !.CHARGE = Mv(Pt(4, 3), Absent, 90)],
            NoInput, NoTarget, NoTarget),
      \* plans without any input: P1 Snap, Advance and Run, P2 Charge
      Order(<<"SNAP_ATTACK", "ADVANCE", "RUN">>, <<"CHARGE">>,
            NoInput, NoInput, NoTarget, NoTarget),
      \* P1 advances one cell south, runs one cell farther and charges to the
      \* east edge; P2 rotates its shields
      Order(<<"ADVANCE", "RUN", "CHARGE">>, <<"ROTATE_ION_SHIELDS">>,
            [NoInput EXCEPT !.ADVANCE = Mv(Pt(1, 3), Absent, Absent),
                            !.RUN = Mv(Pt(1, 4), Absent, Absent),
                            !.CHARGE = Mv(Pt(5, 3), Absent, Absent)],
            NoInput, NoTarget, NoTarget) }

Scenarios ==
    [duel |->
        [loadout |-> [P1 |-> FullBattery, P2 |-> LightLoadout],
         pos |-> [P1 |-> Pt(1, 2), P2 |-> Pt(4, 2)],
         facingDeg |-> [P1 |-> 0, P2 |-> 180],
         terrain |-> <<>>],
     siege |->
        [loadout |-> [P1 |-> FullBattery, P2 |-> LightLoadout],
         pos |-> [P1 |-> Pt(1, 0), P2 |-> Pt(4, 0)],
         facingDeg |-> [P1 |-> 0, P2 |-> 180],
         terrain |-> <<[id |-> "block", type |-> "HARD",
                        rects |-> <<[x |-> 2, y |-> 0, w |-> 1, h |-> 1]>>]>>],
     brawl |->
        [loadout |-> [P1 |-> FullBattery, P2 |-> LightLoadout],
         pos |-> [P1 |-> Pt(1, 2), P2 |-> Pt(4, 2)],
         facingDeg |-> [P1 |-> 0, P2 |-> 180],
         terrain |-> <<[id |-> "scrub", type |-> "SOFT",
                        rects |-> <<[x |-> 2, y |-> 1, w |-> 1, h |-> 1]>>]>>]]

\* the orders the players may enter in each scenario
ScenarioOrders == [duel |-> DuelOrders, siege |-> SiegeOrders, brawl |-> BrawlOrders]

ScenarioIds == DOMAIN Scenarios
Terrain == Scenarios[scn].terrain

-----------------------------------------------------------------------------
(* execute-turn.ts: executeTurnMutating, driven by executeTurnUI (App.tsx)  *)

IdleExec == [i |-> 0, kind |-> "none", attackers |-> <<>>, range |-> 0, ai |-> 0, ws |-> <<>>]
NoKnights == [P1 |-> NoResult, P2 |-> NoResult]
NoBonus == [P1 |-> 0, P2 |-> 0]

\* the state of the App after startFreshGame for match s
GameInit(s) ==
    /\ scn = s
    /\ knights = [p \in Players |-> makeKnight(p, Scenarios[s].loadout[p])]
    /\ positions = Scenarios[s].pos
    /\ facings = [p \in Players |-> FacingOfDeg(Scenarios[s].facingDeg[p])]
    /\ turnNumber = 1
    /\ plans = NoPlans
    /\ inputs = NoInputs
    /\ weaponTargets = NoTargets
    /\ issues = <<>>
    /\ pc = "idle"
    /\ exec = IdleExec
    /\ events = <<>>
    /\ rotateArmourBonus = NoBonus
    /\ computeKnights = NoKnights

\* the match played by the turn-level specification
Init ==
    /\ GameInit("duel")
    /\ fnArgs = NoResult
    /\ fnOut = NoResult

\* Math.round(dist(p1, p2)) on the current positions
getRangeInches(pos) == RoundDist(pos["P1"], pos["P2"])

\* the planners lock in one of the offered orders for the turn
PlanOrders(o) ==
    /\ pc = "idle"
    /\ turnNumber <= MaxTurns
    /\ plans' = o.plans
    /\ inputs' = o.inputs
    /\ weaponTargets' = o.weaponTargets
    /\ UNCHANGED <<scn, knights, positions, facings, turnNumber, issues, pc, exec, events,
                   rotateArmourBonus, computeKnights, fnArgs, fnOut>>

validateBothPlans ==
    LET Res(p) == validatePlan(plans[p], knights[p])
        Tag(p) == [i \in 1..Len(Res(p)) |-> [player |-> p, issue |-> Res(p)[i]]]
    IN  Tag("P1") \o Tag("P2")

\* executeTurnUI with issues: the issues go to the log and the function returns
ExecuteRejected ==
    /\ pc = "idle"
    /\ turnNumber <= MaxTurns
    /\ validateBothPlans # <<>>
    /\ issues' = validateBothPlans
    /\ UNCHANGED <<scn, knights, positions, facings, turnNumber, plans, inputs,
                   weaponTargets, pc, exec, events, rotateArmourBonus, computeKnights,
                   fnArgs, fnOut>>

\* executeTurnUI without issues: executeTurnMutating is entered
ExecuteAccepted ==
    /\ pc = "idle"
    /\ turnNumber <= MaxTurns
    /\ validateBothPlans = <<>>
    /\ issues' = <<>>
    /\ pc' = "step"
    /\ exec' = [IdleExec EXCEPT !.i = 1]
    /\ events' = <<>>
    /\ rotateArmourBonus' = NoBonus
    /\ UNCHANGED <<scn, knights, positions, facings, turnNumber, plans, inputs,
                   weaponTargets, computeKnights, fnArgs, fnOut>>

StepAction == CORE_ACTION_ORDER[exec.i]
InStep == pc = "step" /\ exec.i <= Len(CORE_ACTION_ORDER)

\* the orders randomOrderBoth() can return, or the single possible order
Orders ==
    LET p1 == Includes(plans["P1"].actions, StepAction)
        p2 == Includes(plans["P2"].actions, StepAction)
    IN  IF p1 /\ p2 THEN {<<"P1", "P2">>, <<"P2", "P1">>}
        ELSE IF p1 THEN {<<"P1">>}
        ELSE IF p2 THEN {<<"P2">>}
        ELSE {<<>>}

StepEvent(order) ==
    [kind |-> "STEP", stepNumber |-> exec.i, action |-> StepAction, order |-> order,
     rangeInches |-> getRangeInches(positions)]

\* every player of the order takes part, destroyed or not (variant)
activePlayersAll(order) == order

\* order.filter((p) => !isKnightDestroyed(snapshotKnights[p]))
activePlayers(order) ==
    LET Alive(p) == ~isKnightDestroyed(knights[p])
    IN  SelectSeq(order, Alive)

NextStep == [IdleExec EXCEPT !.i = exec.i + 1]

\* a step nobody planned: the STEP event only
StepIdle ==
    /\ InStep
    /\ Orders = {<<>>}
    /\ events' = Append(events, StepEvent(<<>>))
    /\ exec' = NextStep
    /\ UNCHANGED <<scn, knights, positions, facings, turnNumber, plans, inputs,
                   weaponTargets, issues, pc, rotateArmourBonus, computeKnights,
                   fnArgs, fnOut>>

StepRotate ==
    /\ InStep
    /\ StepAction = "ROTATE_ION_SHIELDS"
    /\ \E order \in Orders :
        /\ order # <<>>
        /\ LET CanRotate(p) == knights[p].canRotateIonShields
               rotated == SelectSeq(activePlayers(order), CanRotate)
           IN  /\ rotateArmourBonus' =
                     [p \in Players |->
                        IF Includes(rotated, p) THEN 1 ELSE rotateArmourBonus[p]]
               /\ events' = Append(events, StepEvent(order))
                            \o (IF rotated # <<>>
                                THEN <<[kind |-> "ROTATE", players |-> rotated]>>
                                ELSE <<>>)
    /\ exec' = NextStep
    /\ UNCHANGED <<scn, knights, positions, facings, turnNumber, plans, inputs,
                   weaponTargets, issues, pc, computeKnights, fnArgs, fnOut>>

\* One move: st holds positions, facings and events as the loop has left them.
\* The MOVE event is kept without the two run dice (their total is kept).
MoveOne(st, p, action, endFacingDeg, waypoints, afterPenalty, rolled) ==
    LET from == st.positions[p]
        to == moveAlongWaypoints(from, waypoints, afterPenalty, Terrain)
        pos2 == [st.positions EXCEPT ![p] = to]
        facing == IF endFacingDeg # Absent THEN FacingOfDeg(endFacingDeg)
                  ELSE IF from # to THEN bearingDeg(from, to)
                  ELSE st.facings[p]
    IN  [positions |-> pos2,
         facings |-> [st.facings EXCEPT ![p] = facing],
         events |-> Append(st.events,
            [kind |-> "MOVE", player |-> p, action |-> action,
             distanceAfterPenalty |-> afterPenalty, distanceRolled |-> rolled,
             from |-> from, to |-> to, rangeAfter |-> getRangeInches(pos2)])]

RECURSIVE AdvanceLoop(_, _)
AdvanceLoop(ps, st) ==
    IF ps = <<>> THEN st
    ELSE LET p == Head(ps)
             move == inputs[p].ADVANCE
             from == st.positions[p]
             dest == IF move.dest # NoPoint THEN move.dest ELSE from
             intended == IF move.distanceInches # Absent THEN Whole(move.distanceInches)
                         ELSE DistOf(from, dest)
             afterPenalty == MinusFloor0(intended, knights[p].movementPenalty)
         IN  IF ~move.present THEN AdvanceLoop(Tail(ps), st)
             ELSE AdvanceLoop(Tail(ps),
                    MoveOne(st, p, "ADVANCE", move.endFacingDeg, <<dest>>, afterPenalty,
                            Absent))

\* rollDiceString(chassis.movement.runDice).total for "2d6"
RunTotals == 2..12

RECURSIVE RunLoop(_, _, _)
RunLoop(ps, st, rolled) ==
    IF ps = <<>> THEN st
    ELSE LET p == Head(ps)
             move == inputs[p].RUN
             from == st.positions[p]
             afterPenalty == MinusFloor0(Whole(rolled[p]), knights[p].movementPenalty)
             advWp == inputs[p].ADVANCE.dest
             runWp == IF move.dest # NoPoint THEN move.dest ELSE from
         IN  IF ~move.present THEN RunLoop(Tail(ps), st, rolled)
             ELSE RunLoop(Tail(ps),
                    MoveOne(st, p, "RUN", move.endFacingDeg, <<advWp, runWp>>,
                            afterPenalty, rolled[p]),
                    rolled)

\* Math.max(0, 6 - penalty): the Charge allowance
ChargeInches == 6

RECURSIVE ChargeLoop(_, _)
ChargeLoop(ps, st) ==
    IF ps = <<>> THEN st
    ELSE LET p == Head(ps)
             choice == inputs[p].CHARGE
             afterPenalty == MinusFloor0(Whole(ChargeInches), knights[p].movementPenalty)
             advWp == inputs[p].ADVANCE.dest
             runWp == inputs[p].RUN.dest
             chargeWp == IF choice.dest # NoPoint THEN choice.dest
                         ELSE st.positions[enemyOf(p)]
         IN  ChargeLoop(Tail(ps),
                MoveOne(st, p, "CHARGE", choice.endFacingDeg, <<advWp, runWp, chargeWp>>,
                        afterPenalty, Absent))

MoveState(order) ==
    [positions |-> positions, facings |-> facings,
     events |-> Append(events, StepEvent(order))]

StepAdvance ==
    /\ InStep
    /\ StepAction = "ADVANCE"
    /\ \E order \in Orders :
        /\ order # <<>>
        /\ LET st == AdvanceLoop(activePlayers(order), MoveState(order))
           IN  /\ positions' = st.positions
               /\ facings' = st.facings
               /\ events' = st.events
    /\ exec' = NextStep
    /\ UNCHANGED <<scn, knights, turnNumber, plans, inputs, weaponTargets, issues, pc,
                   rotateArmourBonus, computeKnights, fnArgs, fnOut>>

StepRun ==
    /\ InStep
    /\ StepAction = "RUN"
    /\ \E order \in Orders :
        /\ order # <<>>
        /\ \E rolled \in [Players -> RunTotals] :
            /\ \A p \in Players :
                  (~Includes(activePlayers(order), p) \/ ~inputs[p].RUN.present)
                      => rolled[p] = 2
            /\ LET st == RunLoop(activePlayers(order), MoveState(order), rolled)
               IN  /\ positions' = st.positions
                   /\ facings' = st.facings
                   /\ events' = st.events
    /\ exec' = NextStep
    /\ UNCHANGED <<scn, knights, turnNumber, plans, inputs, weaponTargets, issues, pc,
                   rotateArmourBonus, computeKnights, fnArgs, fnOut>>

-----------------------------------------------------------------------------
(* execute-turn.ts: the ranged steps and the Charge step, one shot at a time *)

RangedActions == {"SNAP_ATTACK", "STANDARD_ATTACK", "AIMED_ATTACK"}

attackTypeOf(action) ==
    IF action = "SNAP_ATTACK" THEN "SNAP"
    ELSE IF action = "STANDARD_ATTACK" THEN "STANDARD" ELSE "AIMED"

\* every weapon of the Knight, disabled or not, as indices (variant)
mountedWeaponsAll(knight) == [i \in 1..Len(knight.weapons) |-> i]

\* weapons.filter((w) => !w.disabled), as indices
mountedWeapons(knight) ==
    LET Rec(i) == ~knight.weapons[i].disabled
    IN  SelectSeq([i \in 1..Len(knight.weapons) |-> i], Rec)

\* The next attacker, from index ai on, whose weapon loop has something to do.
\* K are the Knights the pass reads (the clones in the compute pass, the live
\* Knights in the apply pass). A charger is passed over when it or its enemy is
\* destroyed, and in the compute pass when the line crosses cover.
RECURSIVE Seek(_, _, _, _, _, _)
Seek(kind, pass, attackers, ai, K, pos) ==
    IF ai > Len(attackers) THEN [ai |-> ai, ws |-> <<>>]
    ELSE LET p == attackers[ai]
             enemy == enemyOf(p)
             los == computeLosEffects(pos[p], pos[enemy], Terrain)
             passedOver ==
                kind = "charge"
                /\ (\/ isKnightDestroyed(K[p])
                    \/ isKnightDestroyed(K[enemy])
                    \/ (pass = "compute" /\ los.crossesAnyCover))
             ws == IF passedOver THEN <<>> ELSE mountedWeapons(K[p])
         IN  IF ws = <<>> THEN Seek(kind, pass, attackers, ai + 1, K, pos)
             ELSE [ai |-> ai, ws |-> ws]

\* after a shot: the rest of this attacker's weapons, else the next attacker
Advance(pass, K) ==
    IF Len(exec.ws) > 1 THEN [exec EXCEPT !.ws = Tail(@)]
    ELSE LET c == Seek(exec.kind, pass, exec.attackers, exec.ai + 1, K, positions)
         IN  [exec EXCEPT !.ai = c.ai, !.ws = c.ws]

StepRangedBegin ==
    /\ InStep
    /\ StepAction \in RangedActions
    /\ \E order \in Orders :
        /\ order # <<>>
        /\ LET HasShot(p) == inputs[p][StepAction].present
                             /\ ~isKnightDestroyed(knights[enemyOf(p)])
               attackers == SelectSeq(activePlayers(order), HasShot)
               c == Seek("ranged", "compute", attackers, 1, knights, positions)
           IN  /\ exec' = [i |-> exec.i, kind |-> "ranged", attackers |-> attackers,
                           range |-> getRangeInches(positions), ai |-> c.ai, ws |-> c.ws]
               /\ events' = Append(events, StepEvent(order))
    /\ computeKnights' = knights
    /\ pc' = "compute"
    /\ UNCHANGED <<scn, knights, positions, facings, turnNumber, plans, inputs,
                   weaponTargets, issues, rotateArmourBonus, fnArgs, fnOut>>

\* the Charge step with the range measured before the chargers move (variant)
StepChargeBeginStartRange ==
    /\ InStep
    /\ StepAction = "CHARGE"
    /\ \E order \in Orders :
        /\ order # <<>>
        /\ LET chargers == activePlayers(order)
               st == ChargeLoop(chargers, MoveState(order))
           IN  /\ positions' = st.positions
               /\ facings' = st.facings
               /\ events' = st.events
               /\ IF chargers = <<>>
                  THEN /\ exec' = NextStep
                       /\ pc' = pc
                       /\ computeKnights' = computeKnights
                  ELSE LET c == Seek("charge", "compute", chargers, 1, knights, st.positions)
                       IN  /\ exec' = [i |-> exec.i, kind |-> "charge",
                                       attackers |-> chargers,
                                       range |-> getRangeInches(positions),
                                       ai |-> c.ai, ws |-> c.ws]
                           /\ pc' = "compute"
                           /\ computeKnights' = knights
    /\ UNCHANGED <<scn, knights, turnNumber, plans, inputs, weaponTargets, issues,
                   rotateArmourBonus, fnArgs, fnOut>>

\* the Charge step up to the clone: every active charger moves, then the range
\* is measured; with no charger left the step ends there
StepChargeBegin ==
    /\ InStep
    /\ StepAction = "CHARGE"
    /\ \E order \in Orders :
        /\ order # <<>>
        /\ LET chargers == activePlayers(order)
               st == ChargeLoop(chargers, MoveState(order))
           IN  /\ positions' = st.positions
               /\ facings' = st.facings
               /\ events' = st.events
               /\ IF chargers = <<>>
                  THEN /\ exec' = NextStep
                       /\ pc' = pc
                       /\ computeKnights' = computeKnights
                  ELSE LET c == Seek("charge", "compute", chargers, 1, knights, st.positions)
                       IN  /\ exec' = [i |-> exec.i, kind |-> "charge",
                                       attackers |-> chargers,
                                       range |-> getRangeInches(st.positions),
                                       ai |-> c.ai, ws |-> c.ws]
                           /\ pc' = "compute"
                           /\ computeKnights' = knights
    /\ UNCHANGED <<scn, knights, turnNumber, plans, inputs, weaponTargets, issues,
                   rotateArmourBonus, fnArgs, fnOut>>

\* The gates of one weapon of attacker p, in the order of the apply pass (the
\* compute pass applies the same gates and records nothing). silent: the apply
\* pass of the Charge step passes the weapon over without a SKIP event.
Gate(p, wi) ==
    LET enemy == enemyOf(p)
        mw == knights[p].weapons[wi]
        profile == resolveWeaponProfileForEquippedName(mw.name, exec.range)
        los == computeLosEffects(positions[p], positions[enemy], Terrain)
        indirect == weaponHasAbility(profile, "INDIRECT")
        inArc == canFireAtTarget(positions[p], facings[p], positions[enemy], mw.mount)
        Stop(reason, silent) == [fire |-> FALSE, reason |-> reason, silent |-> silent]
    IN  IF exec.kind = "ranged"
        THEN (IF profile = NoProfile THEN Stop("no profile", FALSE)
              ELSE IF los.blocked /\ ~indirect THEN Stop("no LOS", FALSE)
              ELSE IF ~isRangedWeapon(profile) THEN Stop("melee weapon", FALSE)
              ELSE IF exec.range > profile.rangeInches THEN Stop("out of range", FALSE)
              ELSE IF ~inArc THEN Stop("arc", FALSE)
              ELSE [fire |-> TRUE, reason |-> "", silent |-> FALSE])
        ELSE (IF los.crossesAnyCover THEN Stop("cover blocks melee", FALSE)
              ELSE IF profile = NoProfile THEN Stop("no profile", TRUE)
              ELSE IF isRangedWeapon(profile) THEN Stop("ranged weapon", TRUE)
              ELSE IF exec.range > profile.rangeInches THEN Stop("out of range", FALSE)
              ELSE IF ~inArc THEN Stop("arc", FALSE)
              ELSE [fire |-> TRUE, reason |-> "", silent |-> FALSE])

\* the arguments of the resolveAttackMutating call for that weapon at defender
ShotArgs(p, wi, defender) ==
    LET enemy == enemyOf(p)
        mw == knights[p].weapons[wi]
        profile == resolveWeaponProfileForEquippedName(mw.name, exec.range)
        los == computeLosEffects(positions[p], positions[enemy], Terrain)
        forcedSnap == los.blocked /\ weaponHasAbility(profile, "INDIRECT")
        perMount == weaponTargets[p][weaponTargetKeyForMount(mw.mount)]
        atk == inputs[p][StepAction]
        meleeTarget == OrElse(inputs[p].STANDARD_ATTACK.targetCellId,
                         OrElse(inputs[p].SNAP_ATTACK.targetCellId,
                           OrElse(inputs[p].AIMED_ATTACK.targetCellId, "C4")))
    IN  [defender |-> defender,
         attackerPos |-> positions[p],
         defenderPos |-> positions[enemy],
         defenderFacing |-> facings[enemy],
         defenderArmourSaveBonus |-> rotateArmourBonus[enemy],
         weapon |-> profile,
         attackType |-> IF exec.kind = "charge" THEN "STANDARD"
                        ELSE IF forcedSnap THEN "SNAP" ELSE attackTypeOf(StepAction),
         targetCellId |-> IF exec.kind = "charge" THEN OrElse(perMount, meleeTarget)
                          ELSE OrElse(perMount, atk.targetCellId),
         targetObscured |-> IF exec.kind = "charge" THEN FALSE ELSE los.obscured,
         dice |-> IF exec.kind = "charge" THEN NoDice ELSE atk.dice]

\* what the rollD6() calls of one resolveAttackMutating call can return; a die
\* that is overridden, or that this weapon never rolls, is pinned
Faces(override, rolled) == IF override # NoDie \/ ~rolled THEN {1} ELSE 1..6
RollSpace(args) ==
    [red : Faces(args.dice.red, args.weapon.scatter),
     blue : Faces(args.dice.blue, args.weapon.scatter),
     ionSave : Faces(args.dice.ionSave, args.weapon.scatter),
     save : Faces(args.dice.save, TRUE),
     damageD6 : Faces(IF args.dice.damageD3 # NoDie /\ args.weapon.damage.dice = "D3"
                      THEN args.dice.damageD3 ELSE args.dice.damageD6,
                      args.weapon.damage.type # "flat")]

\* One weapon of the compute pass. The clone made by the spread copies the
\* cells; its weapons array is the live Knight's own array, so a weapon the
\* call disables is disabled on the live Knight as well.
ComputeShot ==
    /\ pc = "compute"
    /\ exec.ai <= Len(exec.attackers)
    /\ LET p == exec.attackers[exec.ai]
           enemy == enemyOf(p)
           wi == Head(exec.ws)
       IN  IF Gate(p, wi).fire
           THEN \E rolls \in RollSpace(ShotArgs(p, wi, computeKnights[enemy])) :
                  LET res == resolveAttackMutating(
                                ShotArgs(p, wi, computeKnights[enemy]), rolls)
                  IN  /\ computeKnights' = [computeKnights EXCEPT ![enemy] = res.defender]
                      /\ knights' = [knights EXCEPT
                                        ![enemy].weapons = res.defender.weapons]
           ELSE UNCHANGED <<knights, computeKnights>>
    /\ exec' = Advance("compute", computeKnights')
    /\ UNCHANGED <<scn, positions, facings, turnNumber, plans, inputs, weaponTargets,
                   issues, pc, events, rotateArmourBonus, fnArgs, fnOut>>

\* the compute loops are over: the outcomes and the clones are dropped
EndCompute ==
    /\ pc = "compute"
    /\ exec.ai > Len(exec.attackers)
    /\ pc' = "apply"
    /\ LET c == Seek(exec.kind, "apply", exec.attackers, 1, knights, positions)
       IN  exec' = [exec EXCEPT !.ai = c.ai, !.ws = c.ws]
    /\ computeKnights' = NoKnights
    /\ UNCHANGED <<scn, knights, positions, facings, turnNumber, plans, inputs,
                   weaponTargets, issues, events, rotateArmourBonus, fnArgs, fnOut>>

weaponLabel(p, wi) ==
    LET enemy == enemyOf(p)
        mw == knights[p].weapons[wi]
        profile == resolveWeaponProfileForEquippedName(mw.name, exec.range)
        los == computeLosEffects(positions[p], positions[enemy], Terrain)
        indirect == weaponHasAbility(profile, "INDIRECT")
    IN  IF exec.kind = "charge" THEN mw.name
        ELSE IF los.blocked /\ indirect THEN mw.name \o " (Indirect -> Snap)"
        ELSE IF indirect THEN mw.name \o " (Indirect)"
        ELSE mw.name

eventAction == IF exec.kind = "charge" THEN "CHARGE_MELEE" ELSE StepAction

\* one weapon of the apply pass: the live defender is hit, the event is logged
ApplyShot ==
    /\ pc = "apply"
    /\ exec.ai <= Len(exec.attackers)
    /\ LET p == exec.attackers[exec.ai]
           enemy == enemyOf(p)
           wi == Head(exec.ws)
           g == Gate(p, wi)
       IN  IF g.fire
           THEN \E rolls \in RollSpace(ShotArgs(p, wi, knights[enemy])) :
                  LET res == resolveAttackMutating(ShotArgs(p, wi, knights[enemy]), rolls)
                  IN  /\ knights' = [knights EXCEPT ![enemy] = res.defender]
                      /\ events' = Append(events,
                            [kind |-> "ATTACK", player |-> p, action |-> eventAction,
                             weapon |-> weaponLabel(p, wi), outcome |-> res.outcome])
           ELSE /\ knights' = knights
                /\ events' = IF g.silent THEN events
                             ELSE Append(events,
                                    [kind |-> "SKIP", player |-> p, action |-> eventAction,
                                     weapon |-> knights[p].weapons[wi].name,
                                     reason |-> g.reason])
    /\ exec' = Advance("apply", knights')
    /\ UNCHANGED <<scn, positions, facings, turnNumber, plans, inputs, weaponTargets,
                   issues, pc, rotateArmourBonus, computeKnights, fnArgs, fnOut>>

\* a ranged or Charge step closed without DESTROYED events (variant)
NoDestroyedEvents == <<>>

\* the DESTROYED events that close a ranged or Charge step
DestroyedEvents ==
    LET Gone(p) == isKnightDestroyed(knights[p])
        Ev(p) == [kind |-> "DESTROYED", player |-> p]
    IN  [i \in 1..Len(SelectSeq(PlayerIds, Gone)) |-> Ev(SelectSeq(PlayerIds, Gone)[i])]

EndAttackStep ==
    /\ pc = "apply"
    /\ exec.ai > Len(exec.attackers)
    /\ events' = events \o DestroyedEvents
    /\ pc' = "step"
    /\ exec' = NextStep
    /\ UNCHANGED <<scn, knights, positions, facings, turnNumber, plans, inputs,
                   weaponTargets, issues, rotateArmourBonus, computeKnights, fnArgs, fnOut>>

\* the next turn prepared with freshly built Knights (variant)
FinishTurnFresh ==
    /\ pc = "step"
    /\ exec.i > Len(CORE_ACTION_ORDER)
    /\ turnNumber' = turnNumber + 1
    /\ knights' = [p \in Players |-> makeKnight(p, Scenarios[scn].loadout[p])]
    /\ plans' = NoPlans
    /\ inputs' = NoInputs
    /\ pc' = "idle"
    /\ exec' = IdleExec
    /\ UNCHANGED <<scn, positions, facings, weaponTargets, issues, events,
                   rotateArmourBonus, computeKnights, fnArgs, fnOut>>

\* executeTurnMutating has returned: executeTurnUI prepares the next turn
FinishTurn ==
    /\ pc = "step"
    /\ exec.i > Len(CORE_ACTION_ORDER)
    /\ turnNumber' = turnNumber + 1
    /\ plans' = NoPlans
    /\ inputs' = NoInputs
    /\ pc' = "idle"
    /\ exec' = IdleExec
    /\ UNCHANGED <<scn, knights, positions, facings, weaponTargets, issues, events,
                   rotateArmourBonus, computeKnights, fnArgs, fnOut>>

Next ==
    \/ \E o \in ScenarioOrders[scn] : PlanOrders(o)
    \/ ExecuteRejected
    \/ ExecuteAccepted
    \/ StepIdle
    \/ StepRotate
    \/ StepAdvance
    \/ StepRun
    \/ StepRangedBegin
    \/ StepChargeBegin
    \/ ComputeShot
    \/ EndCompute
    \/ ApplyShot
    \/ EndAttackStep
    \/ FinishTurn

Spec == Init /\ [][Next]_vars

\* the same turn machine on the siege match
InitSiege ==
    /\ GameInit("siege")
    /\ fnArgs = NoResult
    /\ fnOut = NoResult

SpecSiege == InitSiege /\ [][Next]_vars

\* the same turn machine on the brawl match
InitBrawl ==
    /\ GameInit("brawl")
    /\ fnArgs = NoResult
    /\ fnOut = NoResult

SpecBrawl == InitBrawl /\ [][Next]_vars

-----------------------------------------------------------------------------
(* Function-level specification: validatePlan on arbitrary plans *)

RECURSIVE SeqsUpTo(_, _)
SeqsUpTo(S, n) ==
    IF n = 0 THEN {<<>>}
    ELSE LET shorter == SeqsUpTo(S, n - 1)
         IN  shorter \cup {Append(s, a) : s \in shorter, a \in S}

InitPlan ==
    /\ GameInit("duel")
    /\ fnArgs \in
          {[fn |-> "validatePlan", plan |-> [actions |-> acts],
            knight |-> [maxActionPoints |-> ap, canRotateIonShields |-> rot]] :
             acts \in SeqsUpTo(CoreAction, MaxPlanLen), ap \in 0..MaxAP, rot \in BOOLEAN}
    /\ fnOut = NoResult

CallValidatePlan ==
    /\ fnOut = NoResult
    /\ fnOut' = [kind |-> "issues", issues |-> validatePlan(fnArgs.plan, fnArgs.knight)]
    /\ UNCHANGED <<knights, plans, fnArgs>>
    /\ UNCHANGED gameVars

NextPlan == CallValidatePlan

SpecPlan == InitPlan /\ [][NextPlan]_vars

-----------------------------------------------------------------------------
(* Function-level specification: the damage model called on a Knight *)

InitDamage ==
    /\ GameInit("duel")
    /\ fnArgs = NoResult
    /\ fnOut = NoResult

\* applyDamageToCell(knight, cell, amount) on any cell of P1's grid
CallApplyDamage(idx, amount) ==
    /\ knights' = [knights EXCEPT !["P1"] = applyDamageToCell(@, idx, amount)]
    /\ fnOut' = [kind |-> "applyDamageToCell",
                 wasCritical |-> knights["P1"].grid.cells[idx].criticallyDamaged,
                 destroyed |-> isKnightDestroyed(knights'["P1"])]
    /\ UNCHANGED <<plans, fnArgs>>
    /\ UNCHANGED gameVars

NextDamage ==
    \E idx \in 1..Len(GridTemplate.cells), amount \in 0..MaxDamage :
        CallApplyDamage(idx, amount)

SpecDamage == InitDamage /\ [][NextDamage]_vars

-----------------------------------------------------------------------------
(* Function-level specification: findPathManhattan on small boards *)

\* Math.round of a coordinate given in half inches
RoundHalf(h) == (h + 1) \div 2
RoundPoint(p) == [x |-> RoundHalf(p.x), y |-> RoundHalf(p.y)]

\* coordinates in half inches: the whole inches from one off the board to one
\* off the board, and the half inches next to the edges
HalfCoords ==
    {2 * n : n \in (-1)..(BoardSize + 1)} \cup {-1, 1, 2 * BoardSize + 1}
GoalHalfCoords == {2 * n : n \in (-1)..(BoardSize + 1)} \cup {1}

Piece(id, rects) == [id |-> id, type |-> "HARD", rects |-> rects]

\* no terrain; one block; a wall that cuts the board in two; a corner fenced
\* off by two rectangles
PathTerrains ==
    { <<>>,
      <<Piece("block", <<[x |-> 2, y |-> 0, w |-> 1, h |-> 1]>>)>>,
      <<Piece("wall", <<[x |-> 2, y |-> 0, w |-> 1, h |-> BoardSize + 1]>>)>>,
      <<Piece("fence", <<[x |-> 0, y |-> 1, w |-> 2, h |-> 1],
                         [x |-> 1, y |-> 0, w |-> 1, h |-> 1]>>)>> }

InitPath ==
    /\ GameInit("duel")
    /\ fnArgs \in
          {[fn |-> "findPathManhattan", start |-> [x |-> sx, y |-> sy],
            goal |-> [x |-> gx, y |-> gy], terrain |-> terrain] :
             sx \in HalfCoords, sy \in HalfCoords,
             gx \in GoalHalfCoords, gy \in GoalHalfCoords, terrain \in PathTerrains}
    /\ fnOut = NoResult

\* findPathManhattan(start, goal, terrain, boardSize); path <<>> stands for null
CallFindPath ==
    /\ fnOut = NoResult
    /\ fnOut' = [kind |-> "findPath",
                 path |-> findPathManhattan(RoundPoint(fnArgs.start),
                                            RoundPoint(fnArgs.goal), fnArgs.terrain)]
    /\ UNCHANGED <<knights, plans, fnArgs>>
    /\ UNCHANGED gameVars

NextPath == CallFindPath

SpecPath == InitPath /\ [][NextPath]_vars

-----------------------------------------------------------------------------
(* execute-turn.ts: moveAlongWaypoints on its own *)

\* no terrain; a block two cells high in the way
WalkTerrains ==
    { <<>>, <<Piece("block", <<[x |-> 2, y |-> 0, w |-> 1, h |-> 2]>>)>> }

WalkStarts == {Pt(0, 0), Pt(1, 1), Pt(4, 2)}

\* waypoints on free cells, one inside the block, one off the board
WalkPoints ==
    {Pt(0, 0), Pt(3, 0), Pt(1, 3), Pt(BoardSize, BoardSize), Pt(2, 0),
     Pt(BoardSize + 1, 2)}

\* allowances sqrt(sq) - k: whole ones, and distances less a movement penalty
WalkAllowances == [sq : {0, 1, 5, 9, 20, 25, 36, 100}, k : {0, 1}]

InitWalk ==
    /\ GameInit("duel")
    /\ fnArgs \in
          {[fn |-> "moveAlongWaypoints", from |-> from, waypoints |-> <<a, b, c>>,
            maxDist |-> MinusFloor0([sq |-> allowance.sq, k |-> 0], allowance.k),
            terrain |-> terrain] :
             from \in WalkStarts, a \in WalkPoints \cup {NoPoint},
             b \in WalkPoints \cup {NoPoint}, c \in WalkPoints,
             allowance \in WalkAllowances, terrain \in WalkTerrains}
    /\ fnOut = NoResult

\* snapToWholeInches(moveAlongWaypoints(from, waypoints, maxDist, terrain))
CallMoveAlongWaypoints ==
    /\ fnOut = NoResult
    /\ fnOut' = [kind |-> "move",
                 to |-> moveAlongWaypoints(fnArgs.from, fnArgs.waypoints,
                                           fnArgs.maxDist, fnArgs.terrain)]
    /\ UNCHANGED <<knights, plans, fnArgs>>
    /\ UNCHANGED gameVars

NextWalk == CallMoveAlongWaypoints

SpecWalk == InitWalk /\ [][NextWalk]_vars

-----------------------------------------------------------------------------
(* Function-level specification: computeLosEffects on small boards *)

\* one hard piece and two soft pieces, the first soft piece next to the hard one
LosPieces ==
    { [id |-> "H1", type |-> "HARD", rects |-> <<[x |-> 2, y |-> 1, w |-> 1, h |-> 1]>>],
      [id |-> "S1", type |-> "SOFT", rects |-> <<[x |-> 3, y |-> 1, w |-> 1, h |-> 1]>>],
      [id |-> "S2", type |-> "SOFT", rects |-> <<[x |-> 1, y |-> 3, w |-> 1, h |-> 1]>>] }

\* the terrain lists: every choice of pieces in every order
RECURSIVE ListsOf(_)
ListsOf(S) ==
    {<<>>} \cup UNION {{<<piece>> \o rest : rest \in ListsOf(S \ {piece})} : piece \in S}

BoardPoints == [x : 0..BoardSize, y : 0..BoardSize]

InitLos ==
    /\ GameInit("duel")
    /\ fnArgs \in
          {[fn |-> "computeLosEffects", a |-> a, b |-> b, terrain |-> terrain] :
             a \in BoardPoints, b \in BoardPoints, terrain \in ListsOf(LosPieces)}
    /\ fnOut = NoResult

CallComputeLos ==
    /\ fnOut = NoResult
    /\ fnOut' = [kind |-> "los",
                 los |-> computeLosEffects(fnArgs.a, fnArgs.b, fnArgs.terrain)]
    /\ UNCHANGED <<knights, plans, fnArgs>>
    /\ UNCHANGED gameVars

NextLos == CallComputeLos

SpecLos == InitLos /\ [][NextLos]_vars

-----------------------------------------------------------------------------
(* Function-level specification: resolveAttackMutating, the scatter step *)

\* the cell ids a caller can name: those of the grid and the blank corner C1
TargetCellIds ==
    {cellId(GridTemplate.cells[i].x, GridTemplate.cells[i].y) :
        i \in 1..Len(GridTemplate.cells)} \cup {cellId(0, 2)}

\* the attacker west, north and south of a defender that faces west
AttackerSpots == {Pt(1, 2), Pt(4, 0), Pt(4, 4)}

InitAttack ==
    /\ GameInit("duel")
    /\ fnArgs \in
          {[fn |-> "resolveAttackMutating",
            args |-> [defender |-> makeKnight("P2", LightLoadout),
                      attackerPos |-> spot,
                      defenderPos |-> Pt(4, 2),
                      defenderFacing |-> FacingOfDeg(180),
                      defenderArmourSaveBonus |-> 0,
                      weapon |-> CORE_WEAPONS[key],
                      attackType |-> attackType,
                      targetCellId |-> target,
                      targetObscured |-> FALSE,
                      dice |-> DiceHit(red, blue)]] :
             spot \in AttackerSpots,
             key \in {"RAPID_FIRE_BATTLE_CANNON", "REAPER_CHAINSWORD"},
             attackType \in {"AIMED", "STANDARD", "SNAP"},
             target \in TargetCellIds, red \in 1..6, blue \in 1..6}
    /\ fnOut = NoResult

CallResolveAttack ==
    /\ fnOut = NoResult
    /\ \E rolls \in RollSpace(fnArgs.args) :
          LET res == resolveAttackMutating(fnArgs.args, rolls)
          IN  fnOut' = [kind |-> "resolveAttack", outcome |-> res.outcome,
                        defender |-> res.defender]
    /\ UNCHANGED <<knights, plans, fnArgs>>
    /\ UNCHANGED gameVars

NextAttack == CallResolveAttack

SpecAttack == InitAttack /\ [][NextAttack]_vars

-----------------------------------------------------------------------------
(* resolve-attack.ts: the saves and the damage of resolveAttackMutating *)

\* the attacker west, east, north and south of a defender that faces west:
\* one spot in each arc
SaveSpots == {Pt(1, 2), Pt(5, 2), Pt(4, 0), Pt(4, 4)}

\* a flat and a D3 scatter weapon, a flat and a D6 melee weapon, of three AP values
SaveWeapons ==
    {"RAPID_FIRE_BATTLE_CANNON", "THERMAL_CANNON_HALF", "REAPER_CHAINSWORD",
     "THUNDERSTRIKE_GAUNTLET"}

\* the cell of that id has lost all its armour to earlier hits
Wrecked(knight, id) ==
    LET IsCell(c) == c.id = id
        idx == FindIndex({ix \in DOMAIN knight.grid.cells : IsCell(knight.grid.cells[ix])})
    IN  applyDamageToCell(knight, idx, knight.grid.cells[idx].maxArmorPoints)

\* a fresh Knight, and one whose cell B2 was shot down before
SaveDefenders ==
    {makeKnight("P2", LightLoadout), Wrecked(makeKnight("P2", LightLoadout), "B2")}

InitSave ==
    /\ GameInit("duel")
    /\ fnArgs \in
          {[fn |-> "resolveAttackMutating",
            args |-> [defender |-> defender,
                      attackerPos |-> spot,
                      defenderPos |-> Pt(4, 2),
                      defenderFacing |-> FacingOfDeg(180),
                      defenderArmourSaveBonus |-> bonus,
                      weapon |-> CORE_WEAPONS[key],
                      attackType |-> "STANDARD",
                      targetCellId |-> "B2",
                      targetObscured |-> obscured,
                      dice |-> [red |-> red, blue |-> 3, ionSave |-> ion, save |-> save,
                                damageD6 |-> dmg, damageD3 |-> NoDie]]] :
             defender \in SaveDefenders, spot \in SaveSpots, key \in SaveWeapons,
             bonus \in {0, 1},
             obscured \in BOOLEAN, red \in 1..6, ion \in {3, 4}, save \in 1..6,
             dmg \in {1, 4}}
    /\ fnOut = NoResult

CallResolveSave ==
    /\ fnOut = NoResult
    /\ \E rolls \in RollSpace(fnArgs.args) :
          LET res == resolveAttackMutating(fnArgs.args, rolls)
          IN  fnOut' = [kind |-> "resolveAttack", outcome |-> res.outcome,
                        defender |-> res.defender]
    /\ UNCHANGED <<knights, plans, fnArgs>>
    /\ UNCHANGED gameVars

NextSave == CallResolveSave

SpecSave == InitSave /\ [][NextSave]_vars

-----------------------------------------------------------------------------
(* Function-level specification: incomingArc on whole degrees *)

\* facings at, one degree before and one degree after every eighth of a turn
FacingDegs == {45 * k + e : k \in (-MaxEighths)..MaxEighths, e \in {-1, 0, 1}}

\* the bearings bearingDeg returns, in whole degrees
BearingDegs == 0..359

InitArc ==
    /\ GameInit("duel")
    /\ fnArgs \in {[fn |-> "incomingArc", bearing |-> b, facingDeg |-> f] :
                      b \in BearingDegs, f \in FacingDegs}
    /\ fnOut = NoResult

CallIncomingArc ==
    /\ fnOut = NoResult
    /\ fnOut' = [kind |-> "arc",
                 arc |-> incomingArcOfBearing(fnArgs.bearing, fnArgs.facingDeg)]
    /\ UNCHANGED <<knights, plans, fnArgs>>
    /\ UNCHANGED gameVars

NextArc == CallIncomingArc

SpecArc == InitArc /\ [][NextArc]_vars

-----------------------------------------------------------------------------
(* core-weapons.ts: resolveWeaponProfileForEquippedName on its own *)

\* Contents of specialRules.rangeProfiles that weapons.json may hold; the file
\* is read as it is (getRangeProfileRules only requires an array): the shipped
\* rule, a rule for a name the flat catalog also carries, bands listed from the
\* widest down, no rule at all, a rule without bands.
RuleTables ==
    {RangeProfileRules,
     <<RangeProfileRules[1],
       [equippedName |-> "Heavy stubber",
        profiles |-> <<[weaponKey |-> "REAPER_CHAINSWORD", maxRange |-> 1],
                       [weaponKey |-> "HEAVY_STUBBER", maxRange |-> 3]>>]>>,
     <<[equippedName |-> "Thermal cannon",
        profiles |-> <<[weaponKey |-> "THERMAL_CANNON_MAX", maxRange |-> 4],
                       [weaponKey |-> "THERMAL_CANNON_HALF", maxRange |-> 2]>>]>>,
     <<>>,
     <<[equippedName |-> "Reaper chainsword", profiles |-> <<>>]>>}

\* equipped names: those of the flat catalog, the range-banded name, a name
\* nothing carries
EquippedNames ==
    {CORE_WEAPONS[k].name : k \in DOMAIN CORE_WEAPONS}
        \cup {"Thermal cannon", "Plasma decimator"}

InitProfile ==
    /\ GameInit("duel")
    /\ fnArgs \in [kind : {"profile"}, rules : RuleTables, equippedName : EquippedNames,
                   measuredRangeInches : 0..MaxMeasuredRange]
    /\ fnOut = NoResult

CallResolveProfile ==
    /\ fnOut = NoResult
    /\ fnOut' = [kind |-> "profile",
                 profile |-> resolveProfileIn(fnArgs.rules, fnArgs.equippedName,
                                              fnArgs.measuredRangeInches)]
    /\ UNCHANGED <<knights, plans, fnArgs>>
    /\ UNCHANGED gameVars

NextProfile == CallResolveProfile

SpecProfile == InitProfile /\ [][NextProfile]_vars

-----------------------------------------------------------------------------
(* Properties *)

\* the initiative order and the action costs as the specification states them
StatedOrder ==
    <<"SNAP_ATTACK", "ADVANCE", "ROTATE_ION_SHIELDS", "STANDARD_ATTACK", "RUN",
      "AIMED_ATTACK", "CHARGE">>
StatedCost(a) ==
    CASE a \in {"SNAP_ATTACK", "ADVANCE", "ROTATE_ION_SHIELDS", "RUN"} -> 1
      [] a \in {"STANDARD_ATTACK", "CHARGE"} -> 2
      [] OTHER -> 3
RECURSIVE StatedCostSum(_)
StatedCostSum(acts) ==
    IF acts = <<>> THEN 0 ELSE StatedCost(Head(acts)) + StatedCostSum(Tail(acts))

NamesTwice(acts) == \E i, j \in 1..Len(acts) : i # j /\ acts[i] = acts[j]
OverBudget(acts, ap) == StatedCostSum(acts) > ap
RotatesWithoutFlag(acts, rot) ==
    ~rot /\ \E i \in 1..Len(acts) : acts[i] = "ROTATE_ION_SHIELDS"
PlanIsLegal(acts, ap, rot) ==
    ~NamesTwice(acts) /\ ~OverBudget(acts, ap) /\ ~RotatesWithoutFlag(acts, rot)
BothPlansLegal ==
    \A p \in Players :
        PlanIsLegal(plans[p].actions, knights[p].maxActionPoints,
                    knights[p].canRotateIonShields)

\* the number of STEP events among the first i events
StepOf(i) == Cardinality({j \in 1..i : events[j].kind = "STEP"})

\* event e may appear in the step of the given action
BelongsTo(e, action) ==
    CASE e.kind = "STEP" -> e.action = action
      [] e.kind = "ROTATE" -> action = "ROTATE_ION_SHIELDS"
      [] e.kind = "MOVE" -> e.action = action
      [] e.kind \in {"ATTACK", "SKIP"} ->
            e.action = action \/ (action = "CHARGE" /\ e.action = "CHARGE_MELEE")
      [] OTHER -> action \in {"SNAP_ATTACK", "STANDARD_ATTACK", "AIMED_ATTACK", "CHARGE"}

\* the call has a next step to take: a step to begin, a weapon to resolve, a
\* pass to close or the return
CanProceed ==
    /\ pc = "step" => exec.i \in 1..8
    /\ pc \in {"compute", "apply"} =>
          /\ exec.ai >= 1
          /\ exec.ai <= Len(exec.attackers) =>
                /\ exec.ws # <<>>
                /\ \A k \in 1..Len(exec.ws) :
                      exec.ws[k] \in 1..Len(knights[exec.attackers[exec.ai]].weapons)

Phase(c) == IF c = "step" THEN 0 ELSE IF c = "compute" THEN 1 ELSE 2

\* a step of the call moves it forward: it returns, or goes to a later step,
\* or to a later pass of the step, or to a later attacker or weapon of the pass
MovesForward ==
    \/ pc = "idle"
    \/ pc' = "idle"
    \/ exec'.i > exec.i
    \/ exec'.i = exec.i /\ Phase(pc') > Phase(pc)
    \/ /\ exec'.i = exec.i /\ pc' = pc
       /\ \/ exec'.ai > exec.ai
          \/ exec'.ai = exec.ai /\ Len(exec'.ws) < Len(exec.ws)

C1_StepFrame ==
    /\ \A i \in 1..Len(events) :
          /\ StepOf(i) \in 1..7
          /\ events[i].kind = "STEP" => events[i].stepNumber = StepOf(i)
          /\ BelongsTo(events[i], StatedOrder[StepOf(i)])
    /\ pc = "step" => StepOf(Len(events)) = exec.i - 1
    /\ pc \in {"compute", "apply"} => StepOf(Len(events)) = exec.i
    /\ (pc = "idle" /\ turnNumber > 1) => StepOf(Len(events)) = 7
    /\ CanProceed

\* C1: a call of executeTurnMutating always has a next step to take and every
\* step moves it forward, so it returns; the STEP events it has emitted are
\* steps 1, 2, ... in the fixed order SNAP_ATTACK, ADVANCE, ROTATE_ION_SHIELDS,
\* STANDARD_ATTACK, RUN, AIMED_ATTACK, CHARGE, one per step begun (also for a
\* step with no participant) and exactly seven once it has returned; the log
\* starts with a STEP event and every other event belongs to the step of the
\* last STEP event before it.
C1_SevenStepsInOrder == []C1_StepFrame /\ [][MovesForward]_vars

\* a returned turn whose log has all seven STEP events, one of them for a step
\* nobody took part in, and an attack logged inside a step
C1_Witness ==
    /\ pc = "idle"
    /\ turnNumber > 1
    /\ StepOf(Len(events)) = 7
    /\ \E i \in 1..Len(events) : events[i].kind = "STEP" /\ events[i].order = <<>>
    /\ \E i \in 1..Len(events) : events[i].kind = "ATTACK"

\* C2: while the compute pass of a ranged or Charge step runs, and when it
\* ends, the live Knights (cells, weapon disabled flags, max action points,
\* movement penalty, capability flag) and the event log stay as they were.
C2_ComputePassLeavesLiveState ==
    [][pc = "compute" => (knights' = knights /\ events' = events)]_vars

\* inside a compute pass a live carapace weapon is disabled although no
\* carapace weapon cell (group 1) of the live grid is critically damaged
C2_Witness ==
    /\ pc = "compute"
    /\ \E p \in Players :
          /\ \E w \in 1..Len(knights[p].weapons) :
                knights[p].weapons[w].mount = "CARAPACE" /\ knights[p].weapons[w].disabled
          /\ \A i \in 1..Len(knights[p].grid.cells) :
                knights[p].grid.cells[i].group = 1
                    => ~knights[p].grid.cells[i].criticallyDamaged

\* C3: pressing Execute while either plan breaks a rule changes nothing but
\* the reported issues (Knights, positions, facings, turn counter, plans and
\* the log of the last turn stay, executeTurnMutating is not entered), and
\* executeTurnMutating is entered only from plans that both keep every rule.
C3_InvalidPlanBlocksTurn ==
    [][/\ (pc = "idle" /\ turnNumber <= MaxTurns /\ ~BothPlansLegal)
            => /\ knights' = knights /\ positions' = positions /\ facings' = facings
               /\ turnNumber' = turnNumber /\ events' = events /\ pc' = "idle"
               /\ (plans' = plans /\ inputs' = inputs /\ weaponTargets' = weaponTargets)
                      => issues' # <<>>
       /\ (pc = "idle" /\ pc' # "idle") => BothPlansLegal]_vars

\* Execute was pressed on an illegal plan: issues are reported, nothing ran
C3_Witness ==
    /\ pc = "idle"
    /\ issues # <<>>
    /\ ~BothPlansLegal
    /\ events = <<>>

HasRule(iss, rule) == \E i \in 1..Len(iss) : iss[i].rule = rule

\* C4: validatePlan returns no issue exactly when the plan names no action
\* twice, its stated costs sum to at most the max action points, and it has no
\* ROTATE_ION_SHIELDS while the flag is false; each broken rule yields an issue
\* and every issue has severity error.
C4_ValidatePlanRules ==
    fnOut.kind = "issues" =>
        LET acts == fnArgs.plan.actions
            ap == fnArgs.knight.maxActionPoints
            rot == fnArgs.knight.canRotateIonShields
            iss == fnOut.issues
        IN  /\ (iss = <<>>) <=> PlanIsLegal(acts, ap, rot)
            /\ \A i \in 1..Len(iss) : iss[i].severity = "error"
            /\ NamesTwice(acts) <=> HasRule(iss, "duplicate")
            /\ OverBudget(acts, ap) <=> HasRule(iss, "budget")
            /\ RotatesWithoutFlag(acts, rot) <=> HasRule(iss, "rotate")

\* validatePlan has reported all three kinds of issue for one plan
C4_Witness ==
    /\ fnOut.kind = "issues"
    /\ HasRule(fnOut.issues, "duplicate")
    /\ HasRule(fnOut.issues, "budget")
    /\ HasRule(fnOut.issues, "rotate")

CellsOf(k) == 1..Len(k.grid.cells)
CritCells(k) == {i \in CellsOf(k) : k.grid.cells[i].criticallyDamaged}

\* C5: every cell keeps 0 <= armorPoints <= maxArmorPoints, its armor never
\* goes up, a cell at 0 armor is critically damaged as soon as the damage
\* application that brought it there is over, and the group effect of a cell
\* has been triggered once if the cell is critical and never otherwise.
C5_ArmorBoundsAndSingleEffect ==
    /\ [](\A p \in Players : \A i \in CellsOf(knights[p]) :
            LET c == knights[p].grid.cells[i]
            IN  /\ 0 <= c.armorPoints /\ c.armorPoints <= c.maxArmorPoints
                /\ c.armorPoints = 0 => c.criticallyDamaged
                /\ knights[p].critEffects[i] = IF c.criticallyDamaged THEN 1 ELSE 0)
    /\ [][\A p \in Players : \A i \in CellsOf(knights[p]) :
            knights'[p].grid.cells[i].armorPoints <= knights[p].grid.cells[i].armorPoints]_vars

\* the cell of armor 2 is at 0 and critical with its effect triggered once,
\* and the last application hit a cell that was already critical
C5_Witness ==
    /\ knights["P1"].grid.cells[6].armorPoints = 0
    /\ knights["P1"].grid.cells[6].criticallyDamaged
    /\ knights["P1"].critEffects[6] = 1
    /\ fnOut.kind = "applyDamageToCell"
    /\ fnOut.wasCritical

\* C6: a critical cell stays critical with armor 0 in every later state, the
\* number of critical cells of a Knight never goes down, and a destroyed
\* Knight stays destroyed.
C6_CriticalIsTerminal ==
    [][\A p \in Players :
          /\ \A i \in CritCells(knights[p]) :
                /\ knights'[p].grid.cells[i].criticallyDamaged
                /\ knights'[p].grid.cells[i].armorPoints = 0
          /\ Cardinality(CritCells(knights'[p])) >= Cardinality(CritCells(knights[p]))
          /\ isKnightDestroyed(knights[p]) => isKnightDestroyed(knights'[p])]_vars

\* a Knight destroyed in turn 1 is still destroyed when turn 2 has run all
\* its steps
C6_Witness ==
    /\ turnNumber = 2
    /\ pc = "step"
    /\ exec.i > 7
    /\ \E p \in Players : isKnightDestroyed(knights[p])

\* C7: a call of applyDamageToCell on a cell that is already critically
\* damaged (wasCritical), with any amount, leaves the Knight exactly as it was:
\* armor, weapon flags, max action points, movement penalty, capability flag
\* and the count of triggered effects.
C7_DamageOnCriticalIsNoOp ==
    [][(fnOut'.kind = "applyDamageToCell" /\ fnOut'.wasCritical) => knights' = knights]_vars

\* applyDamageToCell has just been called on a critical cell of a Knight that
\* also carries effects a second trigger would change (movement penalty)
C7_Witness ==
    /\ fnOut.kind = "applyDamageToCell"
    /\ fnOut.wasCritical
    /\ knights["P1"].movementPenalty = 1

\* C8: isKnightDestroyed is true exactly when at least 6 cells are critically
\* damaged, whatever their groups.
C8_DestroyedAtSix ==
    \A p \in Players :
        isKnightDestroyed(knights[p]) <=> Cardinality(CritCells(knights[p])) >= 6

\* the sixth cell has just become critical and the Knight is destroyed
C8_Witness ==
    /\ Cardinality(CritCells(knights["P1"])) = 6
    /\ fnOut.kind = "applyDamageToCell"
    /\ ~fnOut.wasCritical
    /\ fnOut.destroyed

\* the step is one weapon of the apply pass that logs an ATTACK event
LogsAttack ==
    /\ pc = "apply"
    /\ Len(events') = Len(events) + 1
    /\ events'[Len(events')].kind = "ATTACK"

\* C9: an attack resolved against a Knight whose capability flag is false
\* (a group-4 cell is critical) neither attempts the Ion save nor ends SAVED
\* by ION.
C9_NoIonSaveWithoutFlag ==
    [][LogsAttack =>
          LET e == events'[Len(events')]
          IN  ~knights[enemyOf(e.player)].canRotateIonShields
                  => (~e.outcome.ionSave.attempted /\ e.outcome.savedBy # "ION")]_vars

\* an attack on a Knight whose shield generator cell is critical has ended
\* SAVED by ION
C9_Witness ==
    \E i \in 1..Len(events) :
        /\ events[i].kind = "ATTACK"
        /\ events[i].outcome.savedBy = "ION"
        /\ \E j \in 1..(i - 1) :
              /\ events[j].kind = "ATTACK"
              /\ events[j].player = events[i].player
              /\ events[j].outcome.kind = "HIT"
              /\ events[j].outcome.finalCellId = "B3"

\* p appears in a ROTATE event of the log of this turn
HasRotated(p) ==
    \E i \in 1..Len(events) :
        events[i].kind = "ROTATE" /\ Includes(events[i].players, p)

\* C10: an armour save made for a Knight succeeds exactly when die + AP
\* (weapon and arc) + cover + bonus >= 5, where the bonus is 1 if the Knight
\* has rotated its Ion shields earlier in this turn and 0 otherwise.
C10_RotateAddsOneToArmourSave ==
    [][LogsAttack =>
          LET e == events'[Len(events')]
              sv == e.outcome.armourSave
              bonus == IF HasRotated(enemyOf(e.player)) THEN 1 ELSE 0
              total == sv.die + sv.ap + (IF sv.cover THEN 1 ELSE 0) + bonus
          IN  sv # NoArmourSave
                  => ((e.outcome.kind = "SAVED" /\ e.outcome.savedBy = "ARMOUR")
                         <=> total >= 5)]_vars

\* a Knight that rotated its shields in step 3 was HIT in step 4 on a save die
\* of 4 against AP 0 without cover
C10_Witness ==
    \E i \in 1..Len(events) :
        /\ events[i].kind = "ATTACK"
        /\ HasRotated(enemyOf(events[i].player))
        /\ events[i].outcome.kind = "HIT"
        /\ events[i].outcome.armourSave.die = 4
        /\ events[i].outcome.armourSave.ap = 0
        /\ ~events[i].outcome.armourSave.cover

\* the players an event names as its actor
ActorsOf(e) ==
    IF e.kind = "ROTATE" THEN {e.players[i] : i \in 1..Len(e.players)}
    ELSE IF e.kind \in {"MOVE", "ATTACK", "SKIP"} THEN {e.player}
    ELSE {}

\* the actors of the events the step appends to the log
NewActors ==
    UNION {ActorsOf(events'[k]) : k \in (Len(events) + 1)..Len(events')}

\* C11: a step that begins while a Knight is destroyed logs no MOVE, ROTATE,
\* ATTACK or SKIP event of its player, gives it no armour-save bonus, leaves its
\* position and facing alone and does not make it an attacker; inside the
\* passes of a step only the attackers fixed at its beginning act, and nobody
\* moves, turns or gains a bonus.
C11_DestroyedTakesNoPart ==
    [][/\ pc = "step" =>
            \A p \in Players :
                isKnightDestroyed(knights[p]) =>
                    /\ p \notin NewActors
                    /\ rotateArmourBonus'[p] = rotateArmourBonus[p]
                    /\ positions'[p] = positions[p]
                    /\ facings'[p] = facings[p]
                    /\ pc' = "compute" => ~Includes(exec'.attackers, p)
       /\ pc \in {"compute", "apply"} =>
            /\ \A p \in NewActors : Includes(exec.attackers, p)
            /\ pc' # "step" => exec'.attackers = exec.attackers
            /\ rotateArmourBonus' = rotateArmourBonus
            /\ positions' = positions
            /\ facings' = facings]_vars

\* event j is an attack that left the Knight of p destroyed
Destroys(j, p) ==
    /\ events[j].kind = "ATTACK"
    /\ enemyOf(events[j].player) = p
    /\ events[j].outcome.kind = "HIT"
    /\ events[j].outcome.destroyed

\* the call has gone past a step planned by a player whose Knight was destroyed
\* before the turn began (no attack of this turn destroyed it)
C11_Witness ==
    /\ pc = "step"
    /\ \E p \in Players :
          /\ isKnightDestroyed(knights[p])
          /\ \A j \in 1..Len(events) : ~Destroys(j, p)
          /\ \E i \in 1..Len(events) :
                events[i].kind = "STEP" /\ Includes(events[i].order, p)

C13_DestroyedFollowsKill ==
    \A j \in 1..Len(events) : \A p \in Players :
        (Destroys(j, p) /\ (pc \in {"step", "idle"} \/ StepOf(j) < StepOf(Len(events))))
            => \E k \in (j + 1)..Len(events) :
                  /\ events[k].kind = "DESTROYED"
                  /\ events[k].player = p
                  /\ StepOf(k) = StepOf(j)

\* a step in which an attack destroyed a Knight has been closed
C13_Witness ==
    /\ pc = "step"
    /\ \E j \in 1..Len(events) : \E p \in Players : Destroys(j, p)

\* the weapons of a Knight that are not disabled, as a set of indices
Fielded(k) == {i \in 1..Len(k.weapons) : ~k.weapons[i].disabled}

\* every gate of a ranged attack passes for weapon wi of p: a profile at the
\* measured range, a ranged weapon, in range, a line of sight (or indirect
\* fire), the target inside the arc of the mount
AllGatesPass(p, wi) ==
    LET mw == knights[p].weapons[wi]
        profile == resolveWeaponProfileForEquippedName(mw.name, exec.range)
        los == computeLosEffects(positions[p], positions[enemyOf(p)], Terrain)
    IN  /\ profile # NoProfile
        /\ profile.scatter
        /\ exec.range <= profile.rangeInches
        /\ (~los.blocked \/ weaponHasAbility(profile, "INDIRECT"))
        /\ canFireAtTarget(positions[p], facings[p], positions[enemyOf(p)], mw.mount)

\* the ATTACK and SKIP events player p has in the step that is open
ShotsLogged(log, p) ==
    {k \in 1..Len(log) :
        /\ log[k].kind \in {"ATTACK", "SKIP"}
        /\ log[k].player = p
        /\ \A m \in (k + 1)..Len(log) : log[m].kind # "STEP"}

\* the step is one weapon of the apply pass of a ranged step
RangedApplyShot == pc = "apply" /\ exec.kind = "ranged" /\ exec.ai <= Len(exec.attackers)

\* the weapon name an ATTACK or SKIP event carries, without the indirect mark
LabelsWeapon(label, name) ==
    label \in {name, name \o " (Indirect)", name \o " (Indirect -> Snap)"}

\* C14: in the apply pass of a ranged step the weapons still to come of the
\* acting attacker are fielded (not disabled) weapons, and together with the
\* events already logged for it they count its fielded weapons; each weapon
\* resolved appends exactly one event, for that weapon, an ATTACK when every
\* gate passes and a SKIP otherwise; when the attacker is done it has one event
\* per fielded weapon.
C14_OneEventPerWeapon ==
    /\ [](RangedApplyShot =>
            LET p == exec.attackers[exec.ai]
            IN  /\ \A k \in 1..Len(exec.ws) : exec.ws[k] \in Fielded(knights[p])
                /\ \A k, m \in 1..Len(exec.ws) : k # m => exec.ws[k] # exec.ws[m]
                /\ Cardinality(ShotsLogged(events, p)) + Len(exec.ws)
                      = Cardinality(Fielded(knights[p])))
    /\ [][RangedApplyShot =>
            LET p == exec.attackers[exec.ai]
                wi == Head(exec.ws)
                e == events'[Len(events')]
            IN  /\ Len(events') = Len(events) + 1
                /\ SubSeq(events', 1, Len(events)) = events
                /\ e.player = p
                /\ LabelsWeapon(e.weapon, knights[p].weapons[wi].name)
                /\ e.kind = (IF AllGatesPass(p, wi) THEN "ATTACK" ELSE "SKIP")
                /\ (exec'.ai # exec.ai \/ pc' # pc) =>
                      Cardinality(ShotsLogged(events', p))
                          = Cardinality(Fielded(knights[p]))]_vars

\* an attacker with a disabled weapon has finished a ranged step in which it
\* logged a SKIP, and the log of the turn holds an ATTACK
C14_Witness ==
    /\ pc = "apply"
    /\ exec.kind = "ranged"
    /\ exec.ai > Len(exec.attackers)
    /\ \E i \in 1..Len(exec.attackers) :
          LET p == exec.attackers[i]
          IN  /\ Fielded(knights[p]) # 1..Len(knights[p].weapons)
              /\ \E k \in ShotsLogged(events, p) : events[k].kind = "SKIP"
    /\ \E k \in 1..Len(events) : events[k].kind = "ATTACK"

\* C16: from the moment a ranged step has fixed its attackers, the list of
\* attackers stays, and nothing that happens in the step (in either pass)
\* changes which weapons an attacker that has not yet fired will field.
C16_SecondMoverGatedAtStepStart ==
    [][(pc \in {"compute", "apply"} /\ exec.kind = "ranged") =>
            /\ pc' # "step" => exec'.attackers = exec.attackers
            /\ \A i \in 1..Len(exec.attackers) :
                  (pc = "compute" \/ i > exec.ai) =>
                      Fielded(knights'[exec.attackers[i]])
                          = Fielded(knights[exec.attackers[i]])]_vars

\* the first attacker of a ranged step has hit cell A3 of the second one, whose
\* carapace weapon has then received no event although the step is through
C16_Witness ==
    /\ pc = "apply"
    /\ exec.kind = "ranged"
    /\ Len(exec.attackers) = 2
    /\ exec.ai > 2
    /\ \E k \in ShotsLogged(events, exec.attackers[1]) :
          /\ events[k].kind = "ATTACK"
          /\ events[k].outcome.kind = "HIT"
          /\ events[k].outcome.finalCellId = "A3"
    /\ \E wi \in 1..Len(knights[exec.attackers[2]].weapons) :
          /\ knights[exec.attackers[2]].weapons[wi].mount = "CARAPACE"
          /\ \A k \in ShotsLogged(events, exec.attackers[2]) :
                ~LabelsWeapon(events[k].weapon, knights[exec.attackers[2]].weapons[wi].name)

\* the reason of the first gate that fails for weapon wi of p, the gates taken
\* in the order: profile, ranged weapon, range, line of sight, arc
StatedSkipReason(p, wi) ==
    LET mw == knights[p].weapons[wi]
        profile == resolveWeaponProfileForEquippedName(mw.name, exec.range)
        los == computeLosEffects(positions[p], positions[enemyOf(p)], Terrain)
    IN  IF profile = NoProfile THEN "no profile"
        ELSE IF ~profile.scatter THEN "melee weapon"
        ELSE IF exec.range > profile.rangeInches THEN "out of range"
        ELSE IF los.blocked /\ "INDIRECT" \notin profile.abilities THEN "no LOS"
        ELSE "arc"

\* C15: a weapon of a ranged attack that fails a gate is skipped with the
\* reason of the first gate it fails in the order profile, ranged weapon,
\* range, line of sight, arc.
C15_SkipReasonOfFirstGate ==
    [][(RangedApplyShot /\ ~AllGatesPass(exec.attackers[exec.ai], Head(exec.ws))) =>
            LET e == events'[Len(events')]
            IN  /\ Len(events') = Len(events) + 1
                /\ e.kind = "SKIP"
                /\ e.reason = StatedSkipReason(exec.attackers[exec.ai], Head(exec.ws))]_vars

\* a melee weapon has been skipped in a ranged step for want of a line of sight
C15_Witness ==
    \E k \in 1..Len(events) :
        /\ events[k].kind = "SKIP"
        /\ events[k].action \in {"SNAP_ATTACK", "STANDARD_ATTACK", "AIMED_ATTACK"}
        /\ events[k].reason = "no LOS"
        /\ \E key \in DOMAIN CORE_WEAPONS :
              /\ CORE_WEAPONS[key].name = events[k].weapon
              /\ ~CORE_WEAPONS[key].scatter

\* the shift a scatter table entry stands for, left and up negative
SignedShift(h) ==
    IF h.dir \in {"LEFT", "UP"} THEN -h.shift
    ELSE IF h.dir \in {"RIGHT", "DOWN"} THEN h.shift ELSE 0

\* the ATTACK event e was scattered by the table of that attack type
ScatteredBy(e, attackType) ==
    /\ e.kind = "ATTACK"
    /\ e.outcome.reason # "target cell not found"
    /\ e.outcome.scatter.dx = SignedShift(horizontalShift(attackType, e.outcome.scatter.red))
    /\ e.outcome.scatter.dy = SignedShift(verticalShift(attackType, e.outcome.scatter.blue))

\* C17: in a ranged step, an indirect-fire weapon whose line of sight is
\* hard-blocked and whose other gates pass logs an ATTACK scattered by the
\* SNAP table; a weapon without the ability under a hard-blocked line of sight
\* logs no ATTACK; an indirect-fire weapon with a clear line of sight whose
\* gates pass logs an ATTACK scattered by the table of the step's attack type.
C17_IndirectFiresSnap ==
    [][RangedApplyShot =>
            LET p == exec.attackers[exec.ai]
                mw == knights[p].weapons[Head(exec.ws)]
                profile == resolveWeaponProfileForEquippedName(mw.name, exec.range)
                los == computeLosEffects(positions[p], positions[enemyOf(p)], Terrain)
                e == events'[Len(events')]
                indirect == profile # NoProfile /\ "INDIRECT" \in profile.abilities
                others == /\ profile # NoProfile
                          /\ profile.scatter
                          /\ exec.range <= profile.rangeInches
                          /\ canFireAtTarget(positions[p], facings[p],
                                             positions[enemyOf(p)], mw.mount)
            IN  /\ Len(events') = Len(events) + 1
                /\ (los.blocked /\ indirect /\ others) => ScatteredBy(e, "SNAP")
                /\ (los.blocked /\ ~indirect) => e.kind = "SKIP"
                /\ (~los.blocked /\ indirect /\ others) =>
                        ScatteredBy(e, attackTypeOf(StepAction))]_vars

\* an Aimed step across hard cover has logged an indirect-fire ATTACK that the
\* SNAP table moved off its target cell, and a SKIP for a weapon without the
\* ability
C17_Witness ==
    /\ \E k \in 1..Len(events) :
          /\ events[k].kind = "ATTACK"
          /\ events[k].action = "AIMED_ATTACK"
          /\ \E key \in DOMAIN CORE_WEAPONS :
                /\ "INDIRECT" \in CORE_WEAPONS[key].abilities
                /\ events[k].weapon = CORE_WEAPONS[key].name \o " (Indirect -> Snap)"
          /\ events[k].outcome.scatter.dx # 0
          /\ events[k].outcome.scatter.dx
                # SignedShift(horizontalShift("AIMED", events[k].outcome.scatter.red))
    /\ \E k \in 1..Len(events) :
          /\ events[k].kind = "SKIP"
          /\ events[k].action = "AIMED_ATTACK"
          /\ events[k].reason = "no LOS"

\* the events a step appends to the log
NewEvents == (Len(events) + 1)..Len(events')

\* the square of the straight-line distance of two points
Dist2(a, b) == (a.x - b.x) * (a.x - b.x) + (a.y - b.y) * (a.y - b.y)

\* the allowance of that constant for a Knight with that movement penalty
AllowanceOf(inches, penalty) == Max(0, inches - penalty)

\* C18: every MOVE event of an Advance step carries the allowance
\* max(0, advance constant - movement penalty) and that of a Charge step
\* max(0, charge constant - movement penalty), and the Knight ends no farther
\* from where it started than that allowance.
C18_AllowanceIsChassisConstant ==
    [][(InStep /\ StepAction \in {"ADVANCE", "CHARGE"}) =>
            \A k \in NewEvents :
                events'[k].kind = "MOVE" =>
                    LET e == events'[k]
                        bound == AllowanceOf(IF e.action = "ADVANCE" THEN AdvanceInches
                                             ELSE ChargeInches,
                                             knights[e.player].movementPenalty)
                    IN  /\ AtLeast(e.distanceAfterPenalty, bound)
                        /\ ~AtLeast(e.distanceAfterPenalty, bound + 1)
                        /\ Dist2(e.from, e.to) <= bound * bound]_vars

\* an Advance has moved a Knight farther than the advance constant
C18_Witness ==
    \E k \in 1..Len(events) :
        /\ events[k].kind = "MOVE"
        /\ events[k].action = "ADVANCE"
        /\ Dist2(events[k].from, events[k].to) > AdvanceInches * AdvanceInches

\* the number of grid steps of the path the engine finds between two points
PathLen(a, b) == Len(findPathManhattan(a, b, Terrain)) - 1

\* C19: when a Run starts off the Advance destination of the same turn, an
\* allowance of r inches that is smaller than the a steps still missing moves
\* the Knight r steps toward the Advance destination; otherwise the Knight
\* passes the Advance destination and the r - a inches left go toward the Run
\* waypoint (all of them, or as many as the waypoint is away).
C19_RunFinishesAdvanceFirst ==
    [][(InStep /\ StepAction = "RUN") =>
            \A k \in NewEvents :
                LET e == events'[k]
                IN  (/\ e.kind = "MOVE"
                     /\ inputs[e.player].ADVANCE.present
                     /\ inputs[e.player].ADVANCE.dest # NoPoint
                     /\ e.from # inputs[e.player].ADVANCE.dest) =>
                    LET advWp == inputs[e.player].ADVANCE.dest
                        runWp == IF inputs[e.player].RUN.dest # NoPoint
                                 THEN inputs[e.player].RUN.dest ELSE e.from
                        r == FloorOf(e.distanceAfterPenalty)
                        a == PathLen(e.from, advWp)
                        b == PathLen(advWp, runWp)
                    IN  IF r < a
                        THEN PathLen(e.from, e.to) = r /\ PathLen(e.to, advWp) = a - r
                        ELSE IF r - a >= b THEN e.to = runWp
                        ELSE /\ PathLen(advWp, e.to) = r - a
                             /\ PathLen(e.to, runWp) = b - (r - a)]_vars

\* a Run that began short of the Advance destination has passed it and ended
\* between it and the Run waypoint
C19_Witness ==
    \E k \in 1..Len(events) :
        /\ events[k].kind = "MOVE"
        /\ events[k].action = "RUN"
        /\ inputs[events[k].player].ADVANCE.dest # NoPoint
        /\ inputs[events[k].player].RUN.dest # NoPoint
        /\ events[k].from # inputs[events[k].player].ADVANCE.dest
        /\ events[k].to \notin {events[k].from, inputs[events[k].player].ADVANCE.dest,
                                inputs[events[k].player].RUN.dest}
        /\ PathLen(events[k].from, inputs[events[k].player].ADVANCE.dest)
              < FloorOf(events[k].distanceAfterPenalty)

\* the cell lies off the board or inside a rectangle of the terrain, the far
\* edges of a rectangle not counted
CellBlocked(c, terrain) ==
    \/ c.x \notin 0..BoardSize
    \/ c.y \notin 0..BoardSize
    \/ \E i \in 1..Len(terrain) : \E j \in 1..Len(terrain[i].rects) :
          /\ c.x \in terrain[i].rects[j].x..(terrain[i].rects[j].x + terrain[i].rects[j].w - 1)
          /\ c.y \in terrain[i].rects[j].y..(terrain[i].rects[j].y + terrain[i].rects[j].h - 1)

\* two cells one unit apart on exactly one axis
Adjacent(a, b) ==
    \/ a.x = b.x /\ (a.y = b.y + 1 \/ b.y = a.y + 1)
    \/ a.y = b.y /\ (a.x = b.x + 1 \/ b.x = a.x + 1)

\* the free cells that chains of adjacent free cells join to the cells of S
RECURSIVE Reachable(_, _)
Reachable(S, terrain) ==
    LET more == {c \in [x : 0..BoardSize, y : 0..BoardSize] :
                    /\ c \notin S
                    /\ ~CellBlocked(c, terrain)
                    /\ \E d \in S : Adjacent(c, d)}
    IN  IF more = {} THEN S ELSE Reachable(S \cup more, terrain)

\* C20: findPathManhattan returns null exactly when the rounded start or the
\* rounded goal is blocked or no chain of adjacent free cells joins them; a path
\* it returns holds no blocked cell, begins at the rounded start, ends at the
\* rounded goal, and its consecutive cells are adjacent.
C20_FindPathSound ==
    fnOut.kind = "findPath" =>
        LET s == RoundPoint(fnArgs.start)
            g == RoundPoint(fnArgs.goal)
            terrain == fnArgs.terrain
            path == fnOut.path
        IN  /\ path = <<>> <=>
                  \/ CellBlocked(s, terrain)
                  \/ CellBlocked(g, terrain)
                  \/ g \notin Reachable({s}, terrain)
            /\ \A i \in 1..Len(path) : ~CellBlocked(path[i], terrain)
            /\ path # <<>> => path[1] = s /\ path[Len(path)] = g
            /\ \A i \in 1..(Len(path) - 1) : Adjacent(path[i], path[i + 1])

\* a path was returned that starts from a rounded half-inch start, passes next
\* to the far edge of a rectangle, and is longer than on the empty board
C20_Witness ==
    /\ fnOut.kind = "findPath"
    /\ fnOut.path # <<>>
    /\ fnArgs.start.x \notin {2 * n : n \in (-1)..(BoardSize + 1)}
    /\ \E i \in 1..Len(fnOut.path) :
          \E k \in 1..Len(fnArgs.terrain) : \E j \in 1..Len(fnArgs.terrain[k].rects) :
              /\ fnOut.path[i].x = fnArgs.terrain[k].rects[j].x + fnArgs.terrain[k].rects[j].w
              /\ fnOut.path[i].y = fnArgs.terrain[k].rects[j].y
    /\ Len(fnOut.path) - 1
          > (IF fnOut.path[1].x > RoundPoint(fnArgs.goal).x
             THEN fnOut.path[1].x - RoundPoint(fnArgs.goal).x
             ELSE RoundPoint(fnArgs.goal).x - fnOut.path[1].x)
            + (IF fnOut.path[1].y > RoundPoint(fnArgs.goal).y
               THEN fnOut.path[1].y - RoundPoint(fnArgs.goal).y
               ELSE RoundPoint(fnArgs.goal).y - fnOut.path[1].y)

\* the indices of the pieces of that type the segment of the call crosses
CrossedPieces(kind) ==
    {i \in 1..Len(fnArgs.terrain) :
        /\ fnArgs.terrain[i].type = kind
        /\ segmentIntersectsRects(fnArgs.a, fnArgs.b, fnArgs.terrain[i].rects)}

\* C21: when the segment crosses a hard piece the result is blocked, not
\* obscured, crossing cover, whatever soft pieces are crossed and wherever the
\* pieces stand in the list; the result is obscured exactly when a soft piece
\* is crossed and no hard piece is.
C21_HardCoverWins ==
    fnOut.kind = "los" =>
        /\ CrossedPieces("HARD") # {} =>
              fnOut.los = [blocked |-> TRUE, obscured |-> FALSE, crossesAnyCover |-> TRUE]
        /\ fnOut.los.obscured <=>
              (CrossedPieces("SOFT") # {} /\ CrossedPieces("HARD") = {})
        /\ fnOut.los.blocked <=> CrossedPieces("HARD") # {}
        /\ fnOut.los.crossesAnyCover <=>
              (CrossedPieces("HARD") # {} \/ CrossedPieces("SOFT") # {})

\* the call was made on a segment that crosses a soft piece listed before a
\* hard piece it crosses as well
C21_Witness ==
    /\ fnOut.kind = "los"
    /\ fnOut.los.blocked
    /\ \E i \in CrossedPieces("SOFT") : \E j \in CrossedPieces("HARD") : i < j

\* the step is one weapon of the apply pass of a Charge step
ChargeApplyShot == pc = "apply" /\ exec.kind = "charge" /\ exec.ai <= Len(exec.attackers)

\* the segment between the Knights meets a rectangle of some terrain piece
CrossesTerrain ==
    \E i \in 1..Len(Terrain) :
        \E j \in 1..Len(Terrain[i].rects) :
            segmentEnterT(positions["P1"], positions["P2"], Terrain[i].rects[j]).ok

\* the mount covers the arc, by the table of the rules
MountCovers(mount, arc) ==
    \/ mount \notin {"TORSO", "ARM_LEFT", "ARM_RIGHT"}
    \/ arc = "FRONT"
    \/ mount = "ARM_LEFT" /\ arc = "LEFT"
    \/ mount = "ARM_RIGHT" /\ arc = "RIGHT"

\* the catalog profiles that carry that name
ProfilesNamed(name) ==
    {CORE_WEAPONS[key] : key \in {kk \in DOMAIN CORE_WEAPONS : CORE_WEAPONS[kk].name = name}}

\* C22: a CHARGE_MELEE ATTACK event is appended only by a weapon of the apply
\* pass of a Charge step, while the line between the Knights crosses no terrain
\* piece (hard or soft), by a melee weapon (scatter = false) whose reach is at
\* least the range of the Knights as they stand, from a mount that covers the
\* arc of the opponent.
C22_MeleeGates ==
    [][\A k \in NewEvents :
          (events'[k].kind = "ATTACK" /\ events'[k].action = "CHARGE_MELEE") =>
              /\ ChargeApplyShot
              /\ LET p == exec.attackers[exec.ai]
                     mw == knights[p].weapons[Head(exec.ws)]
                 IN  /\ events'[k].player = p
                     /\ events'[k].weapon = mw.name
                     /\ ~CrossesTerrain
                     /\ \E profile \in ProfilesNamed(mw.name) :
                           /\ ~profile.scatter
                           /\ profile.rangeInches
                                 >= RoundDist(positions["P1"], positions["P2"])
                     /\ MountCovers(mw.mount,
                                    relativeArc(positions[p], facings[p],
                                                positions[enemyOf(p)]))]_vars

\* a charger stands in reach of its chainsword with soft cover on the line and
\* the chainsword has been skipped for the cover
C22_Witness ==
    /\ \E k \in 1..Len(events) :
          /\ events[k].kind = "SKIP"
          /\ events[k].action = "CHARGE_MELEE"
          /\ events[k].reason = "cover blocks melee"
          /\ events[k].weapon = "Reaper chainsword"
    /\ CrossesTerrain
    /\ \A i \in 1..Len(Terrain) : Terrain[i].type = "SOFT"
    /\ RoundDist(positions["P1"], positions["P2"]) = 1

\* the MOVE events of the Charge step that holds event k
ChargeMoves(k) ==
    {m \in 1..Len(events) :
        /\ events[m].kind = "MOVE"
        /\ events[m].action = "CHARGE"
        /\ StepOf(m) = StepOf(k)}

\* the range logged by the last of them
LastChargeRange(k) ==
    events[CHOOSE m \in ChargeMoves(k) : \A n \in ChargeMoves(k) : n <= m].rangeAfter

\* C23: every CHARGE_MELEE event lies behind all MOVE events of its Charge
\* step; an ATTACK among them is by a weapon whose reach is at least the range
\* logged by the last MOVE of the step, and a SKIP for range by one whose reach
\* is below it.
C23_PostChargeRange ==
    \A k \in 1..Len(events) :
        (events[k].kind \in {"ATTACK", "SKIP"} /\ events[k].action = "CHARGE_MELEE") =>
            /\ ChargeMoves(k) # {}
            /\ \A m \in ChargeMoves(k) : m < k
            /\ events[k].kind = "ATTACK" =>
                  \E profile \in ProfilesNamed(events[k].weapon) :
                      profile.rangeInches >= LastChargeRange(k)
            /\ (events[k].kind = "SKIP" /\ events[k].reason = "out of range") =>
                  \E profile \in ProfilesNamed(events[k].weapon) :
                      profile.rangeInches < LastChargeRange(k)

\* two chargers: the first one's move brought the Knights to 1 inch, the second
\* one's move took them apart again, and the first one's chainsword was skipped
\* for range
C23_Witness ==
    \E k \in 1..Len(events) :
        /\ events[k].kind = "SKIP"
        /\ events[k].action = "CHARGE_MELEE"
        /\ events[k].reason = "out of range"
        /\ \E m \in ChargeMoves(k) :
              /\ events[m].player = events[k].player
              /\ events[m].rangeAfter = 1
              /\ LastChargeRange(k) > 1

\* the cells of the defender of the call that carry that id
CellsWithId(id) ==
    {i \in 1..Len(fnArgs.args.defender.grid.cells) :
        fnArgs.args.defender.grid.cells[i].id = id}

\* where the scatter dice of the call send the shot from cell i: the red die
\* moved by the arc of the attacker and kept in 1..6, then the tables
ScatteredTo(i) ==
    LET arc == fnOut.outcome.incomingArc
        red == Max(1, Min(6, fnArgs.args.dice.red
                               + (IF arc = "LEFT" THEN -1 ELSE IF arc = "RIGHT" THEN 1 ELSE 0)))
    IN  [x |-> fnArgs.args.defender.grid.cells[i].x
                 + SignedShift(horizontalShift(fnArgs.args.attackType, red)),
         y |-> fnArgs.args.defender.grid.cells[i].y
                 + SignedShift(verticalShift(fnArgs.args.attackType, fnArgs.args.dice.blue))]

\* the grid of the defender has a cell at that coordinate
HasCellAt(c) ==
    \E i \in 1..Len(fnArgs.args.defender.grid.cells) :
        /\ fnArgs.args.defender.grid.cells[i].x = c.x
        /\ fnArgs.args.defender.grid.cells[i].y = c.y

\* C26: a scatter weapon whose shot is sent outside the grid bounds, or to a
\* coordinate inside them where the grid has no cell, gives MISS with no final
\* cell, no save rolled and the defender as it was; a weapon without scatter
\* logs no scatter and ends on the chosen target cell.
C26_OffGridScatterMisses ==
    fnOut.kind = "resolveAttack" =>
        \A i \in CellsWithId(fnArgs.args.targetCellId) :
            /\ (fnArgs.args.weapon.scatter /\ ~HasCellAt(ScatteredTo(i))) =>
                  /\ fnOut.outcome.kind = "MISS"
                  /\ fnOut.outcome.finalCellId = "null"
                  /\ fnOut.outcome.ionSave = NoIonSave
                  /\ fnOut.outcome.armourSave = NoArmourSave
                  /\ fnOut.outcome.damage = 0
                  /\ fnOut.defender = fnArgs.args.defender
            /\ (fnArgs.args.weapon.scatter /\ HasCellAt(ScatteredTo(i))) =>
                  /\ fnOut.outcome.finalCellId # "null"
                  /\ \E j \in CellsWithId(fnOut.outcome.finalCellId) :
                        /\ fnArgs.args.defender.grid.cells[j].x = ScatteredTo(i).x
                        /\ fnArgs.args.defender.grid.cells[j].y = ScatteredTo(i).y
            /\ ~fnArgs.args.weapon.scatter =>
                  /\ fnOut.outcome.scatter = NoScatter
                  /\ fnOut.outcome.finalCellId = fnArgs.args.targetCellId

\* a scatter shot was sent to the blank corner inside the bounds of the grid
C26_Witness ==
    /\ fnOut.kind = "resolveAttack"
    /\ fnArgs.args.weapon.scatter
    /\ fnOut.outcome.kind = "MISS"
    /\ \E i \in CellsWithId(fnArgs.args.targetCellId) :
          /\ ScatteredTo(i).x \in 0..(fnArgs.args.defender.grid.width - 1)
          /\ ScatteredTo(i).y \in 0..(fnArgs.args.defender.grid.height - 1)
          /\ ~HasCellAt(ScatteredTo(i))

\* the angle from the facing to the bearing, as the one value of -179..180 that
\* differs from bearing - facing by a multiple of 360
DeltaOf(bearing, facingDeg) ==
    CHOOSE d \in (-179)..180 : (bearing - facingDeg - d) % 360 = 0

\* the arc the rules give for that delta
ArcOfDelta(d) ==
    IF d \in (-45)..45 THEN "FRONT"
    ELSE IF d >= 135 \/ d <= -135 THEN "REAR"
    ELSE IF d > 0 THEN "RIGHT" ELSE "LEFT"

\* C24: incomingArc returns one of the four arcs, the one the delta of bearing
\* and facing normalized to (-180, 180] gives: FRONT for |delta| <= 45, REAR for
\* |delta| >= 135, else RIGHT for a positive and LEFT for a negative delta; a
\* facing moved by a whole turn gives the same arc.
C24_ArcOfDelta ==
    fnOut.kind = "arc" =>
        /\ fnOut.arc \in {"FRONT", "RIGHT", "REAR", "LEFT"}
        /\ fnOut.arc = ArcOfDelta(DeltaOf(fnArgs.bearing, fnArgs.facingDeg))
        /\ \A turns \in {-1, 1} :
              incomingArcOfBearing(fnArgs.bearing, fnArgs.facingDeg + 360 * turns)
                  = fnOut.arc

\* the call was made with a negative facing and a delta on a seam: 45 or -45
\* (FRONT), or 135, -135 or 180 (REAR)
C24_Witness ==
    /\ fnOut.kind = "arc"
    /\ fnArgs.facingDeg < 0
    /\ \/ /\ DeltaOf(fnArgs.bearing, fnArgs.facingDeg) \in {45, -45}
          /\ fnOut.arc = "FRONT"
       \/ /\ DeltaOf(fnArgs.bearing, fnArgs.facingDeg) \in {135, -135, 180}
          /\ fnOut.arc = "REAR"

\* C25: an ATTACK event, of a ranged step or of a Charge step, is appended only
\* for a weapon whose mount covers the arc in which the opponent lies, seen from
\* the attacker's position and facing as they are when the weapon is resolved:
\* TORSO covers FRONT, ARM_LEFT FRONT and LEFT, ARM_RIGHT FRONT and RIGHT, any
\* other mount all four arcs.
C25_AttackOnlyIntoCoveredArc ==
    [][\A k \in NewEvents :
          events'[k].kind = "ATTACK" =>
              /\ pc = "apply"
              /\ exec.ai <= Len(exec.attackers)
              /\ LET p == exec.attackers[exec.ai]
                     mw == knights[p].weapons[Head(exec.ws)]
                 IN  /\ events'[k].player = p
                     /\ LabelsWeapon(events'[k].weapon, mw.name)
                     /\ MountCovers(mw.mount,
                                    relativeArc(positions'[p], facings'[p],
                                                positions'[enemyOf(p)]))]_vars

\* the log of a turn holds a ranged ATTACK, a melee ATTACK of a Charge and a
\* weapon skipped for its arc
C25_Witness ==
    /\ \E k \in 1..Len(events) :
          events[k].kind = "ATTACK" /\ events[k].action # "CHARGE_MELEE"
    /\ \E k \in 1..Len(events) :
          events[k].kind = "ATTACK" /\ events[k].action = "CHARGE_MELEE"
    /\ \E k \in 1..Len(events) :
          events[k].kind = "SKIP" /\ events[k].reason = "arc"

\* the group-3 cells of the Knight on the side of the grid (-1 left of the
\* midline, 1 right of it): the midline of a grid of width w lies at (w - 1) / 2
ArmCells(knight, side) ==
    {i \in 1..Len(knight.grid.cells) :
        /\ knight.grid.cells[i].group = 3
        /\ side * (2 * knight.grid.cells[i].x - (knight.grid.width - 1)) > 0}

\* the arm has two cells or more and every one is critically damaged
ArmLost(knight, side) ==
    /\ Cardinality(ArmCells(knight, side)) >= 2
    /\ \A i \in ArmCells(knight, side) : knight.grid.cells[i].criticallyDamaged

\* the weapons of the Knight on that mount
WeaponsOn(knight, mount) ==
    {i \in 1..Len(knight.weapons) : knight.weapons[i].mount = mount}

\* C27: whatever cells have been damaged, in whatever order, every weapon on the
\* left arm is disabled when the left-arm cells of group 3 are two or more and
\* all critical, and none is disabled otherwise; the same holds of the right arm
\* and the right-arm cells.
C27_ArmDisabledIffArmLost ==
    LET knight == knights["P1"]
    IN  /\ \A i \in WeaponsOn(knight, "ARM_LEFT") :
              knight.weapons[i].disabled <=> ArmLost(knight, -1)
        /\ \A i \in WeaponsOn(knight, "ARM_RIGHT") :
              knight.weapons[i].disabled <=> ArmLost(knight, 1)

\* both left-arm cells and one right-arm cell are critical: the left-arm weapon
\* is disabled, the right-arm weapon is not
C27_Witness ==
    LET knight == knights["P1"]
    IN  /\ fnOut # NoResult
        /\ ArmLost(knight, -1)
        /\ \E i \in ArmCells(knight, 1) : knight.grid.cells[i].criticallyDamaged
        /\ \E i \in ArmCells(knight, 1) : ~knight.grid.cells[i].criticallyDamaged
        /\ \E i \in WeaponsOn(knight, "ARM_LEFT") : knight.weapons[i].disabled
        /\ \E i \in WeaponsOn(knight, "ARM_RIGHT") : ~knight.weapons[i].disabled

\* the rules of the table handed in that carry the equipped name
RulesNamed ==
    {i \in DOMAIN fnArgs.rules : fnArgs.rules[i].equippedName = fnArgs.equippedName}

\* C28: when the table holds a rule for the equipped name, the result is the
\* profile of the first pair of the rule's list whose maxRange is at least the
\* measured range, and "no profile" when no pair has one, whatever the flat
\* catalog holds under that name; when the table holds no rule for the name,
\* the result is the catalog entry of exactly that name, or "no profile" when
\* no entry has it.
C28_ResolveProfile ==
    fnOut # NoResult =>
        IF RulesNamed # {}
        THEN \E i \in RulesNamed :
                LET list == fnArgs.rules[i].profiles
                    wide == {j \in DOMAIN list :
                                list[j].maxRange >= fnArgs.measuredRangeInches}
                IN  /\ \A i2 \in RulesNamed : i <= i2
                    /\ IF wide = {} THEN fnOut.profile = NoProfile
                       ELSE \E j \in wide :
                              /\ \A j2 \in wide : j <= j2
                              /\ fnOut.profile = CORE_WEAPONS[list[j].weaponKey]
        ELSE IF ProfilesNamed(fnArgs.equippedName) = {}
             THEN fnOut.profile = NoProfile
             ELSE fnOut.profile \in ProfilesNamed(fnArgs.equippedName)

\* a name that has a rule and a catalog entry was resolved at a range beyond
\* every band of the rule, and the result is "no profile"
C28_Witness ==
    /\ fnOut # NoResult
    /\ RulesNamed # {}
    /\ ProfilesNamed(fnArgs.equippedName) # {}
    /\ \A i \in RulesNamed :
          /\ fnArgs.rules[i].profiles # <<>>
          /\ \A j \in DOMAIN fnArgs.rules[i].profiles :
                fnArgs.rules[i].profiles[j].maxRange < fnArgs.measuredRangeInches
    /\ fnOut.profile = NoProfile

\* a step of the turn is under way for an action that p planned and for which
\* p's inputs hold no entry
InputMissing(p) ==
    /\ pc \in {"step", "compute", "apply"}
    /\ exec.i <= Len(CORE_ACTION_ORDER)
    /\ StepAction \in DOMAIN NoInput
    /\ Includes(plans[p].actions, StepAction)
    /\ ~inputs[p][StepAction].present

ScriptedDice ==
    \A p \in Players : \A a \in RangedActions :
        inputs[p][a].present =>
            \A d \in {"red", "blue", "ionSave", "save", "damageD6"} :
                inputs[p][a].dice[d] # NoDie

\* no action is planned by both players, and nobody planned Run
SoloSteps ==
    /\ \A p \in Players : ~Includes(plans[p].actions, "RUN")
    /\ \A a \in DOMAIN CORE_ACTION_COST :
          ~(Includes(plans["P1"].actions, a) /\ Includes(plans["P2"].actions, a))

\* whatever the five rollD6() calls of one resolveAttackMutating call return
AnyRolls == [red : 1..6, blue : 1..6, ionSave : 1..6, save : 1..6, damageD6 : 1..6]

\* the weapon at hand passes its gates and is resolved against the defender the
\* pass works on: the clone in the compute pass, the live Knight in the apply pass
ShotAtHand ==
    /\ pc \in {"compute", "apply"}
    /\ exec.ai <= Len(exec.attackers)
    /\ Gate(exec.attackers[exec.ai], Head(exec.ws)).fire

ArgsAtHand ==
    LET p == exec.attackers[exec.ai]
        K == IF pc = "compute" THEN computeKnights ELSE knights
    IN  ShotArgs(p, Head(exec.ws), K[enemyOf(p)])

\* what a pass keeps of a resolved attack: the apply pass logs the outcome and
\* keeps the defender, the compute pass drops the outcome
Kept(res) == IF pc = "apply" THEN res ELSE [defender |-> res.defender]

\* C30: in a turn whose ranged attacks all carry dice overrides, with one actor
\* per step and no Run, every attack that is resolved, ranged or melee of a
\* Charge, has one possible outcome and one possible defender state, whatever
\* the random number generator returns: two executions from equal states log
\* the same events and end in the same state.
C30_ReplayableWithOverrides ==
    (ScriptedDice /\ SoloSteps /\ ShotAtHand) =>
        \A rolls \in AnyRolls :
            Kept(resolveAttackMutating(ArgsAtHand, rolls))
                = Kept(resolveAttackMutating(ArgsAtHand,
                    [red |-> 1, blue |-> 1, ionSave |-> 1, save |-> 1, damageD6 |-> 1]))

\* in such a turn a melee weapon of a Charge is about to be resolved on the live
\* defender, after a ranged attack with overridden dice was logged
C30_Witness ==
    /\ ScriptedDice
    /\ SoloSteps
    /\ ShotAtHand
    /\ pc = "apply"
    /\ exec.kind = "charge"
    /\ \E k \in 1..Len(events) :
          events[k].kind = "ATTACK" /\ events[k].action \in RangedActions

\* the arc in which the attacker of the call at hand lies, seen from the defender
CallArc ==
    incomingArc(fnArgs.args.defenderPos, fnArgs.args.defenderFacing,
                fnArgs.args.attackerPos)

\* the damage of the weapon of the call at hand before the arc's bonus
CallWeaponDamage ==
    LET weapon == fnArgs.args.weapon
        d6 == fnArgs.args.dice.damageD6
    IN  IF weapon.damage.type = "flat" THEN weapon.damage.value
        ELSE IF weapon.damage.dice = "D6" THEN d6
        ELSE (d6 + 1) \div 2

\* C31: the red die that a scatter shot logs is the die handed in, lowered by 1
\* from the LEFT arc and raised by 1 from the RIGHT arc, kept within 1..6; the
\* damage of a HIT is the weapon's damage, plus 1 from the LEFT, RIGHT and REAR
\* arcs; the armour-save total is die + AP + cover, less 1 from the REAR arc only.
C31_ArcModifiers ==
    fnOut # NoResult =>
        LET a == fnArgs.args
            o == fnOut.outcome
            shifted == a.dice.red + (IF CallArc = "LEFT" THEN -1
                                     ELSE IF CallArc = "RIGHT" THEN 1 ELSE 0)
            clamped == IF shifted < 1 THEN 1 ELSE IF shifted > 6 THEN 6 ELSE shifted
        IN  /\ o.incomingArc = CallArc
            /\ a.weapon.scatter => o.scatter.red = clamped
            /\ o.kind = "HIT" =>
                  o.damage = CallWeaponDamage + (IF CallArc = "FRONT" THEN 0 ELSE 1)
            /\ o.armourSave # NoArmourSave =>
                  o.armourSave.roll
                     = a.dice.save + a.weapon.ap + (IF a.targetObscured THEN 1 ELSE 0)
                         - (IF CallArc = "REAR" THEN 1 ELSE 0)
            /\ o.kind \in {"HIT", "SAVED"} /\ o.savedBy # "ION" =>
                  (o.kind = "SAVED" <=> o.armourSave.roll >= 5)

\* a shot from the REAR arc whose die, AP and cover add up to 5 or more is a HIT
\* with the damage raised by 1
C31_Witness ==
    /\ fnOut # NoResult
    /\ fnArgs.fn = "resolveAttackMutating"
    /\ CallArc = "REAR"
    /\ fnOut.outcome.kind = "HIT"
    /\ fnArgs.args.dice.save + fnArgs.args.weapon.ap
          + (IF fnArgs.args.targetObscured THEN 1 ELSE 0) >= 5
    /\ fnOut.outcome.damage = CallWeaponDamage + 1

\* C32: a shot that reaches a cell with armour takes the Ion save exactly when
\* the weapon scatters and the attacker lies in the protected (FRONT) arc; the
\* save succeeds exactly when its die is 4 or more, whatever the AP, the cover
\* and the armour-save bonus; on success the outcome is SAVED by ION with no
\* armour save, no damage and the defender untouched; on failure, and for a
\* melee or off-arc attack, the armour save is resolved.
C32_IonSaveFirst ==
    fnOut # NoResult =>
        LET a == fnArgs.args
            o == fnOut.outcome
        IN  IF o.kind = "MISS" THEN ~o.ionSave.attempted
            ELSE /\ o.ionSave.attempted <=> (a.weapon.scatter /\ CallArc = "FRONT")
                 /\ o.ionSave.attempted =>
                       /\ o.ionSave.die = a.dice.ionSave
                       /\ o.ionSave.success <=> a.dice.ionSave >= 4
                 /\ (o.ionSave.attempted /\ o.ionSave.success) =>
                       /\ o.kind = "SAVED"
                       /\ o.savedBy = "ION"
                       /\ o.armourSave = NoArmourSave
                       /\ o.damage = 0
                       /\ fnOut.defender = a.defender
                 /\ ~(o.ionSave.attempted /\ o.ionSave.success) =>
                       /\ o.savedBy # "ION"
                       /\ o.armourSave # NoArmourSave
                       /\ o.armourSave.die = a.dice.save

\* a scatter shot from the FRONT arc with AP -2 on an obscured defender with an
\* armour-save bonus is saved by an Ion die of 4
C32_Witness ==
    /\ fnOut # NoResult
    /\ fnArgs.fn = "resolveAttackMutating"
    /\ fnArgs.args.weapon.scatter
    /\ fnArgs.args.weapon.ap = -2
    /\ fnArgs.args.targetObscured
    /\ fnArgs.args.defenderArmourSaveBonus = 1
    /\ fnArgs.args.dice.ionSave = 4
    /\ CallArc = "FRONT"
    /\ fnOut.outcome.kind = "SAVED"
    /\ fnOut.outcome.savedBy = "ION"

\* the waypoints of the call at hand that are plotted, in order, after the start
Plotted ==
    LET Is(wp) == wp # NoPoint
    IN  <<fnArgs.from>> \o SelectSeq(fnArgs.waypoints, Is)

\* the engine's grid path of leg j, from plotted point j to plotted point j + 1
LegPath(j) == findPathManhattan(Plotted[j], Plotted[j + 1], fnArgs.terrain)

\* the lattice steps of the first j legs
RECURSIVE StepsOfLegs(_)
StepsOfLegs(j) == IF j = 0 THEN 0 ELSE StepsOfLegs(j - 1) + Len(LegPath(j)) - 1

\* the floor of the allowance sqrt(sq) - k of the call at hand
WholeAllowance ==
    LET a == fnArgs.maxDist
    IN  CHOOSE n \in 0..a.sq :
            (n + a.k) * (n + a.k) <= a.sq /\ a.sq < (n + 1 + a.k) * (n + 1 + a.k)

\* every leg of the call at hand is routed on the grid
AllRouted == \A j \in 1..(Len(Plotted) - 1) : LegPath(j) # <<>>

\* C33: when every leg has a grid path, the Knight ends on the last waypoint if
\* the steps of all legs fit in the floor of the allowance; otherwise it ends, on
\* the first leg that does not fit, at the path node whose index is what the
\* earlier legs left of the floor of the allowance, so that exactly the floor of
\* the allowance is walked and no later waypoint is pursued.
C33_WalkWithinAllowance ==
    (fnOut # NoResult /\ AllRouted) =>
        LET legs == Len(Plotted) - 1
            short == {j \in 1..legs : StepsOfLegs(j) > WholeAllowance}
        IN  IF short = {} THEN fnOut.to = Plotted[legs + 1]
            ELSE \E j \in short :
                    /\ \A j2 \in short : j <= j2
                    /\ fnOut.to = LegPath(j)[WholeAllowance - StepsOfLegs(j - 1) + 1]

\* an allowance that is not whole covers the first of two legs and part of the
\* second: the Knight stands on the second leg's path, short of its waypoint
C33_Witness ==
    /\ fnOut # NoResult
    /\ fnArgs.fn = "moveAlongWaypoints"
    /\ AllRouted
    /\ fnArgs.terrain # <<>>
    /\ fnArgs.maxDist = [sq |-> 20, k |-> 0]
    /\ Len(Plotted) = 4
    /\ StepsOfLegs(1) = 2
    /\ StepsOfLegs(2) > 4
    /\ fnOut.to = LegPath(2)[3]
    /\ fnOut.to # Plotted[3]

\* C35: a Knight that starts a move on a free cell of the board ends it, once
\* its position is rounded, on a free cell of the board: inside the board and
\* inside no terrain rectangle, by the grid path and by the clamped straight
\* line alike.
C35_EndsOnFreeCell ==
    (/\ fnOut # NoResult
     /\ ~CellBlocked(fnArgs.from, fnArgs.terrain)
     /\ fnOut.to # NoPoint)
        => ~CellBlocked(fnOut.to, fnArgs.terrain)

\* the only waypoint lies inside terrain, two inches along a free line, and the
\* allowance covers it: the straight-line move was clamped at the terrain's edge
C35_Witness ==
    /\ fnOut # NoResult
    /\ fnArgs.fn = "moveAlongWaypoints"
    /\ Len(Plotted) = 2
    /\ Plotted[2] \in [x : 0..BoardSize, y : 0..BoardSize]
    /\ CellBlocked(Plotted[2], fnArgs.terrain)
    /\ ~CellBlocked(fnArgs.from, fnArgs.terrain)
    /\ earliestObstacleEnterT(Plotted[1], Plotted[2], fnArgs.terrain).ok
    /\ fnOut.to # NoPoint
    /\ fnOut.to # fnArgs.from

\* the last event of the log that is a MOVE of p for that action, 0 if none
LastMove(p, action) ==
    LET moves == {k \in 1..Len(events) :
                     /\ events[k].kind = "MOVE"
                     /\ events[k].player = p
                     /\ events[k].action = action}
    IN  IF moves = {} THEN 0 ELSE CHOOSE k \in moves : \A k2 \in moves : k2 <= k

\* the first event of the turn under way: its last STEP event of step 1
TurnStart ==
    LET firsts == {k \in 1..Len(events) :
                      events[k].kind = "STEP" /\ events[k].stepNumber = 1}
    IN  IF firsts = {} THEN 0 ELSE CHOOSE k \in firsts : \A k2 \in firsts : k2 <= k

\* p moved onto its Advance destination and then onto its Run destination in
\* the turn under way and stands there
ReachedBoth(p) ==
    /\ LastMove(p, "ADVANCE") > TurnStart
    /\ LastMove(p, "RUN") > LastMove(p, "ADVANCE")
    /\ events[LastMove(p, "ADVANCE")].to = inputs[p].ADVANCE.dest
    /\ events[LastMove(p, "RUN")].to = inputs[p].RUN.dest
    /\ positions[p] = inputs[p].RUN.dest

\* where a walk of that many whole inches toward the goal ends on the grid path
TowardOnly(from, goal, inches) ==
    LET path == findPathManhattan(from, goal, Terrain)
    IN  IF Len(path) - 1 <= inches THEN goal ELSE path[inches + 1]

\* C34: a Knight that reached its Advance and its Run destination earlier in
\* the turn and charges alone spends the whole Charge allowance on the grid
\* path from where it stands to the Charge waypoint: it ends on the waypoint, or
\* as many steps along that path as the allowance has inches.
C34_ChargeDoesNotGoBack ==
    [][(InStep /\ StepAction = "CHARGE") =>
          \A p \in Players :
              (/\ ReachedBoth(p)
               /\ inputs[p].CHARGE.dest # NoPoint
               /\ findPathManhattan(positions[p], inputs[p].CHARGE.dest, Terrain) # <<>>
               /\ ~Includes(plans[enemyOf(p)].actions, "CHARGE"))
                  => \A k \in NewEvents :
                        (events'[k].kind = "MOVE" /\ events'[k].player = p) =>
                            events'[k].to
                               = TowardOnly(positions[p], inputs[p].CHARGE.dest,
                                            AllowanceOf(ChargeInches,
                                                        knights[p].movementPenalty))]_vars

\* a Knight that reached both destinations has charged: the MOVE of its Charge
\* starts on the Run destination
C34_Witness ==
    \E p \in Players :
        /\ pc \in {"compute", "apply"}
        /\ exec.kind = "charge"
        /\ LastMove(p, "CHARGE") > LastMove(p, "RUN")
        /\ LastMove(p, "RUN") > LastMove(p, "ADVANCE")
        /\ LastMove(p, "ADVANCE") > TurnStart
        /\ events[LastMove(p, "ADVANCE")].to = inputs[p].ADVANCE.dest
        /\ events[LastMove(p, "RUN")].to = inputs[p].RUN.dest
        /\ events[LastMove(p, "CHARGE")].from = inputs[p].RUN.dest
        /\ inputs[p].ADVANCE.dest # inputs[p].RUN.dest

\* the critically damaged cells of that group on the Knight's grid
CritCellsOfGroup(knight, group) ==
    {i \in 1..Len(knight.grid.cells) :
        knight.grid.cells[i].group = group /\ knight.grid.cells[i].criticallyDamaged}

\* the square of the base allowance of the move that logged the MOVE event e:
\* Advance takes the inches entered, or the distance to the destination when
\* none are; Run takes the inches rolled; Charge takes ChargeInches
BaseSq(e) ==
    LET move == inputs[e.player].ADVANCE
    IN  CASE e.action = "ADVANCE" ->
                 (IF move.distanceInches # Absent
                  THEN move.distanceInches * move.distanceInches
                  ELSE Dist2(e.from, IF move.dest # NoPoint THEN move.dest ELSE e.from))
          [] e.action = "RUN" -> e.distanceRolled * e.distanceRolled
          [] OTHER -> ChargeInches * ChargeInches

C37_ActionPointsClamped ==
    /\ [](\A p \in Players :
             CritCellsOfGroup(knights[p], 5) # {} => knights[p].maxActionPoints <= 2)
    /\ [][/\ \A p \in Players :
                knights'[p].maxActionPoints <= knights[p].maxActionPoints
          /\ (pc = "idle" /\ pc' = "step")
                => \A p \in Players :
                      CritCellsOfGroup(knights[p], 5) # {}
                         => ~Includes(plans[p].actions, "AIMED_ATTACK")]_vars

\* a Knight with a critical group-5 cell has planned the aimed attack in a later
\* turn and the plan was turned down for its budget
C37_Witness ==
    \E p \in Players :
        /\ pc = "idle"
        /\ turnNumber > 1
        /\ CritCellsOfGroup(knights[p], 5) # {}
        /\ knights[p].maxActionPoints = 2
        /\ Includes(plans[p].actions, "AIMED_ATTACK")
        /\ \E i \in 1..Len(issues) :
              issues[i].player = p /\ issues[i].issue.rule = "budget"

\* the cell of the defender handed to the call that the outcome names as final
FinalCellBefore ==
    {ix \in DOMAIN fnArgs.args.defender.grid.cells :
        fnArgs.args.defender.grid.cells[ix].id = fnOut.outcome.finalCellId}

\* C38: an attack whose final cell has no armour left is a MISS naming that
\* cell, with no Ion save, no armour save and no damage resolved and the
\* defender as it was; a critically damaged cell is never the cell of a HIT or
\* of a SAVED outcome.
C38_NoArmourIsMiss ==
    fnOut # NoResult =>
        \A ix \in FinalCellBefore :
            LET cell == fnArgs.args.defender.grid.cells[ix]
                o == fnOut.outcome
            IN  /\ cell.armorPoints = 0 =>
                      /\ o.kind = "MISS"
                      /\ ~o.ionSave.attempted
                      /\ o.armourSave = NoArmourSave
                      /\ o.damage = 0
                      /\ ~o.destroyed
                      /\ fnOut.defender = fnArgs.args.defender
                /\ cell.criticallyDamaged => o.kind \notin {"HIT", "SAVED"}

\* a scatter shot from the FRONT arc with an Ion die of 4 and a save die of 6
\* has come down on the cell B2 that had lost its armour before
C38_Witness ==
    /\ fnOut # NoResult
    /\ fnArgs.fn = "resolveAttackMutating"
    /\ fnArgs.args.weapon.scatter
    /\ CallArc = "FRONT"
    /\ fnArgs.args.dice.ionSave = 4
    /\ fnArgs.args.dice.save = 6
    /\ fnOut.outcome.finalCellId = "B2"
    /\ \E ix \in FinalCellBefore :
          /\ fnArgs.args.defender.grid.cells[ix].armorPoints = 0
          /\ fnArgs.args.defender.grid.cells[ix].criticallyDamaged
    /\ fnOut.outcome.kind = "MISS"

\* the critical damage on the Knight's grid that disables a weapon of that mount
Justified(knight, mount) ==
    CASE mount = "CARAPACE" -> CritCellsOfGroup(knight, 1) # {}
      [] mount = "TORSO" -> CritCellsOfGroup(knight, 6) # {}
      [] mount = "ARM_LEFT" -> ArmLost(knight, -1)
      [] mount = "ARM_RIGHT" -> ArmLost(knight, 1)
      [] OTHER -> FALSE

\* C39: in every state of a match, inside the compute and apply passes too, a
\* disabled weapon of a live Knight is backed by critical damage on the live
\* grid of that Knight (group 1 for CARAPACE, group 6 for TORSO, the whole arm
\* of two or more group-3 cells for ARM_LEFT and ARM_RIGHT, nothing for OTHER),
\* and a disabled weapon stays disabled.
C39_DisabledWeaponsJustified ==
    /\ [](\A p \in Players : \A w \in 1..Len(knights[p].weapons) :
             knights[p].weapons[w].disabled
                => Justified(knights[p], knights[p].weapons[w].mount))
    /\ [][\A p \in Players : \A w \in 1..Len(knights[p].weapons) :
             knights[p].weapons[w].disabled => knights'[p].weapons[w].disabled]_vars

\* the compute pass of a step is over, the apply pass has not yet resolved the
\* shot, and a live weapon is disabled with no critical damage on the live grid
\* to back it
C39_Witness ==
    /\ pc = "apply"
    /\ computeKnights = NoKnights
    /\ \E p \in Players : \E w \in 1..Len(knights[p].weapons) :
          /\ knights[p].weapons[w].disabled
          /\ ~Justified(knights[p], knights[p].weapons[w].mount)

\* the index of the cell of that id on the Knight's grid
IndexOfCell(knight, id) ==
    LET IsCell(c) == c.id = id
    IN  FindIndex({ix \in DOMAIN knight.grid.cells : IsCell(knight.grid.cells[ix])})

\* the weapons of the Knight off the mounts that the critical effect of a cell
\* of that group may disable
OffMounts(knight, group) ==
    LET hit == CASE group = 1 -> {"CARAPACE"}
                 [] group = 6 -> {"TORSO"}
                 [] group = 3 -> {"ARM_LEFT", "ARM_RIGHT"}
                 [] OTHER -> {}
    IN  {w \in 1..Len(knight.weapons) : knight.weapons[w].mount \notin hit}

\* what a HIT of that damage on the cell ix may change of the defender
HitFrame(before, after, ix, damage) ==
    LET cell == before.grid.cells[ix]
        cell2 == after.grid.cells[ix]
        crit == cell2.armorPoints = 0
    IN  /\ cell2.armorPoints = Max(0, cell.armorPoints - damage)
        /\ cell2.criticallyDamaged <=> crit
        /\ [cell2 EXCEPT !.armorPoints = 0, !.criticallyDamaged = FALSE]
              = [cell EXCEPT !.armorPoints = 0, !.criticallyDamaged = FALSE]
        /\ \A j \in DOMAIN before.grid.cells :
              j # ix => after.grid.cells[j] = before.grid.cells[j]
        /\ Len(after.weapons) = Len(before.weapons)
        /\ \A w \in 1..Len(before.weapons) :
              /\ [after.weapons[w] EXCEPT !.disabled = FALSE]
                    = [before.weapons[w] EXCEPT !.disabled = FALSE]
              /\ (~crit \/ w \in OffMounts(before, cell.group))
                    => after.weapons[w].disabled = before.weapons[w].disabled
        /\ (~crit \/ cell.group # 5) => after.maxActionPoints = before.maxActionPoints
        /\ (~crit \/ cell.group # 8) => after.movementPenalty = before.movementPenalty
        /\ (~crit \/ cell.group # 4)
              => after.canRotateIonShields = before.canRotateIonShields
        /\ after.name = before.name

\* C40: a shot resolved in the apply pass leaves the attacker as it was; a MISS
\* or SAVED outcome leaves the defender as it was; a HIT lowers the armour of
\* the final cell alone to max(0, armour - damage), marks it critical exactly
\* at 0, and changes weapon flags, action points, movement penalty and shield
\* capability only as the critical effect of that cell's group allows; the
\* destroyed field of the outcome is isKnightDestroyed of the defender after it.
C40_OnlyHitChangesFinalCell ==
    [][\A k \in NewEvents :
          (pc = "apply" /\ events'[k].kind = "ATTACK") =>
              LET p == events'[k].player
                  enemy == enemyOf(p)
                  o == events'[k].outcome
              IN  /\ knights'[p] = knights[p]
                  /\ o.kind \in {"MISS", "SAVED"} => knights'[enemy] = knights[enemy]
                  /\ o.kind = "HIT" =>
                        /\ IndexOfCell(knights[enemy], o.finalCellId) # 0
                        /\ HitFrame(knights[enemy], knights'[enemy],
                                    IndexOfCell(knights[enemy], o.finalCellId), o.damage)
                        /\ o.destroyed = isKnightDestroyed(knights'[enemy])
                  /\ o.kind # "HIT" => ~o.destroyed]_vars

\* the log ends with a HIT whose damage was more than the armour left on the
\* final cell, now critical, and the defender's max action points have dropped
C40_Witness ==
    /\ pc = "apply"
    /\ events # <<>>
    /\ events[Len(events)].kind = "ATTACK"
    /\ events[Len(events)].outcome.kind = "HIT"
    /\ LET e == events[Len(events)]
           d == knights[enemyOf(e.player)]
           ix == IndexOfCell(d, e.outcome.finalCellId)
       IN  /\ d.grid.cells[ix].criticallyDamaged
           /\ e.outcome.damage > d.grid.cells[ix].maxArmorPoints
           /\ d.grid.cells[ix].group = 5
           /\ d.maxActionPoints = 2

====
